---- MODULE Spec2Model ----
(***************************************************************************)
(* Battle engine of ballsdex/core/battle.py: Participant, AbilityProcessor *)
(* and the TeamBattle turn loop.  Floats are modelled as exact rationals   *)
(* [n, d] (d > 0, lowest terms); every ability value used below is a       *)
(* dyadic rational, for which IEEE doubles are exact as well.              *)
(***************************************************************************)
EXTENDS Integers, Sequences, FiniteSets, Bags, TLC

\* ------------------------------------------------------------------ numbers
Abs(x) == IF x < 0 THEN -x ELSE x

RECURSIVE GCD(_, _)
GCD(x, y) == IF y = 0 THEN x ELSE GCD(y, x % y)

\* a float value, as a rational in lowest terms
R(n, d) == LET g == GCD(Abs(n), d) IN [n |-> n \div g, d |-> d \div g]

\* float(i) for an integer i
FromInt(i) == [n |-> i, d |-> 1]

\* x * y on floats
RMul(x, y) == R(x.n * y.n, x.d * y.d)

\* x + y on floats
RAdd(x, y) == R(x.n * y.d + y.n * x.d, x.d * y.d)

\* x < y on floats
RLess(x, y) == x.n * y.d < y.n * x.d

\* Python max(x, y): the first argument unless the second is greater
RMax(x, y) == IF RLess(x, y) THEN y ELSE x

\* Python int(x): rounds towards zero
PyInt(x) == IF x.n >= 0 THEN x.n \div x.d ELSE -((-x.n) \div x.d)

\* floor(x), the rounding the specification names
Floor(x) == x.n \div x.d

\* Python max(x, y) / min(x, y) on ints
Max(x, y) == IF y > x THEN y ELSE x
Min(x, y) == IF y < x THEN y ELSE x

\* ------------------------------------------------------------------- bounds
\* longest team list handed to the constructor
MaxTeam == 2
\* the model keeps the last MaxLog lines of the transcript
MaxLog == 12

\* --------------------------------------------------------- program constants
\* "if turn > 1000"
TurnLimit == 1000
\* "team[:3]"
TeamCap == 3

\* ----------------------------------------------------------------- entities
\* one ability entry {"type": t, "value": v}
E(t, v) == [type |-> t, value |-> v]
\* an ability entry without a "value" key
E0(t) == [type |-> t]

NoLogic == [h \in {} |-> <<>>]

\* a BallInstance: pk, health, attack and its countryball's capacity_logic
Inst(pk, hp, atk, logic) == [pk |-> pk, health |-> hp, attack |-> atk, capacity_logic |-> logic]

\* two instances that heal back each turn what a hit of 1 takes, and one
\* that stands exactly TurnLimit hits of 1
HealerA == Inst(21, 2, 1, [on_attack |-> <<E("heal", FromInt(1))>>])
HealerB == Inst(31, 2, 1, [on_attack |-> <<E("heal", FromInt(1))>>])
Tank == Inst(22, TurnLimit, 1, NoLogic)
\* one that stands one hit more, and heals nothing
TankB == Inst(32, TurnLimit + 1, 1, NoLogic)
Reviver == Inst(5, 1, 1, [on_exit |-> <<E("heal", FromInt(1)), E("shield", R(3, 2))>>])
Plain == Inst(1, 3, 2, NoLogic)
Weak == Inst(11, 2, 1, NoLogic)
Guard == Inst(12, 6, 2, [on_defend |-> <<E("shield", R(1, 2))>>])

\* instances without health: never active
HuskA == Inst(6, 0, 2, [on_enter |-> <<E("heal", FromInt(1))>>])
HuskB == Inst(16, 0, 1, NoLogic)
Herald == Inst(4, 2, 3, [on_attack |-> <<E("damage_multiplier", R(1, 2)), E("extra_damage", FromInt(3))>>,
                         on_defend |-> <<E("poison", FromInt(1)), E0("shield"), E("extra_damage", R(-5, 2))>>,
                         on_enter  |-> <<E("shield", R(1, 4)), E("shield", R(1, 2))>>])

\* teams of four: the fourth of team A would win the battle
Second == Inst(7, 3, 1, NoLogic)
Third == Inst(8, 3, 1, NoLogic)
Fourth == Inst(9, 50, 9, [on_enter |-> <<E("heal", FromInt(1))>>])
Wall == Inst(17, 12, 1, NoLogic)
Spare == Inst(19, 2, 1, [on_enter |-> <<E("shield", R(1, 2))>>])

\* entities without abilities: the two of test_simple_1v1_damage, one as
\* strong as Tank, and some whose attack is zero or negative
SimpleA == Inst(41, 20, 5, NoLogic)
SimpleB == Inst(51, 10, 1, NoLogic)
TankC == Inst(33, TurnLimit, 1, NoLogic)
Feeble == Inst(42, 2, 0, NoLogic)
Timid == Inst(52, 3, -2, NoLogic)

\* the two of test_ability_extra_damage_and_shield
BonusA == Inst(10, 20, 5, [on_attack |-> <<E("extra_damage", FromInt(3))>>])
ShieldB == Inst(20, 30, 4, [on_defend |-> <<E("shield", R(1, 2))>>])
\* multipliers of 2.0 and 3.0 and two flat bonuses on one hook
Doubler == Inst(43, 10, 4, [on_attack |-> <<E("damage_multiplier", FromInt(2)),
                                            E("extra_damage", FromInt(1)),
                                            E("damage_multiplier", FromInt(3)),
                                            E("extra_damage", FromInt(2))>>])
Bulk == Inst(53, 60, 1, NoLogic)

\* one of team B that its on_exit heals
ReviverB == Inst(54, 1, 1, [on_exit  |-> <<E("heal", FromInt(1))>>,
                            on_enter |-> <<E("extra_damage", FromInt(0))>>])

\* the battles that run into the turn limit, and some short ones
EdgeBattles ==
  { <<(<<HealerA>>), (<<HealerB>>)>>,
    <<(<<Tank>>), (<<HealerB>>)>>,
    <<(<<Tank>>), (<<TankB>>)>>,
    <<(<<Reviver, Plain>>), (<<Weak, Guard>>)>>,
    <<(<<Plain, Reviver>>), (<<Guard, Weak>>)>>,
    <<(<<Reviver>>), (<<Guard>>)>>,
    <<(<<HuskA>>), (<<HuskB>>)>>,
    <<(<<Second>>), (<<ReviverB, Weak>>)>>,
    <<(<<BonusA>>), (<<ShieldB>>)>>,
    <<(<<Doubler>>), (<<Bulk>>)>>,
    <<(<<SimpleA>>), (<<SimpleB>>)>>,
    <<(<<Plain>>), (<<Weak>>)>>,
    <<(<<Tank>>), (<<TankC>>)>>,
    <<(<<Plain, Second>>), (<<Weak, Wall>>)>>,
    <<(<<Second, Feeble, Third>>), (<<Timid, Weak, SimpleB>>)>>,
    <<(<<Feeble>>), (<<Timid, Weak>>)>>,
    <<(<<HuskA>>), (<<Spare>>)>>,
    <<(<<Plain, Second, Third, Fourth>>), (<<Wall, Weak, HuskB, Spare>>)>>,
    <<(<<Herald, HuskA>>), (<<HuskB>>)>>,
    <<(<<HuskA>>), (<<HuskB, Guard>>)>> }

\* the host's instances
CollectionA ==
  { Plain,
    Inst(2, 4, 1, [on_attack |-> <<E("extra_damage", FromInt(3))>>,
                   on_defend |-> <<E("heal", FromInt(0))>>]),
    Inst(3, 4, 2, [on_attack |-> <<E("damage_multiplier", FromInt(2)), E("damage_multiplier", R(3, 2))>>,
                   on_enter  |-> <<E("heal", R(1, 2))>>]),
    Herald,
    Reviver,
    HuskA }

\* the opponent's instances
CollectionB ==
  { Weak,
    Guard,
    Inst(13, 3, 1, [on_enter  |-> <<E("shield", R(1, 2)), E("shield", R(1, 4))>>,
                    on_defend |-> <<E("damage_multiplier", FromInt(2)), E0("damage_multiplier")>>,
                    on_exit   |-> <<E("extra_damage", FromInt(1)), E("shield", R(1, 4))>>]),
    Inst(14, 3, 3, [on_attack |-> <<E("shield", R(3, 2)), E("extra_damage", FromInt(-4))>>,
                    on_enter  |-> <<E0("extra_damage"), E("damage_multiplier", FromInt(0))>>]),
    Inst(15, 5, 3, [on_attack |-> <<E("damage_multiplier", R(-1, 2)), E("extra_damage", FromInt(3))>>,
                    on_defend |-> <<E("shield", R(-1, 2))>>]) }

\* the lists of 0..n different instances of a collection
RECURSIVE Lists(_, _)
Lists(C, n) ==
  IF n = 0 THEN { <<>> }
  ELSE LET shorter == Lists(C, n - 1)
       IN shorter \cup { Append(l, x) : l \in { s \in shorter : Len(s) = n - 1 },
                                        x \in C }

Distinct(l) == \A i, j \in 1..Len(l) : i # j => l[i] # l[j]

TeamLists(C) == { l \in Lists(C, MaxTeam) : Distinct(l) }

\* -------------------------------------------------------------------- state
VARIABLES
  in_a, in_b,        \* the lists handed to TeamBattle(team_a, team_b)
  team_a, team_b,    \* self.team_a, self.team_b: lists of Participant
  pc,                \* position in __init__ / run
  logs,              \* run's logs: its last MaxLog lines
  nlogs,             \* len(logs)
  turn,              \* run's turn
  a_active, b_active,\* run's a_active, b_active: an index into the team, 0 for None
  dmg,               \* run's dmg
  frame              \* the apply_abilities call in progress

vars == <<in_a, in_b, team_a, team_b, pc, logs, nlogs, turn, a_active, b_active, dmg, frame>>

\* class Participant
Participant(inst, maxhp, hp) ==
  [instance |-> inst, max_hp |-> maxhp, current_hp |-> hp,
   shield_percent |-> FromInt(0), extra_damage_multiplier |-> FromInt(1),
   extra_flat_damage |-> 0]

\* a reference to a participant: its team and its index there; None is <<"none", 0>>
Ref(side, i) == IF i = 0 THEN <<"none", 0>> ELSE <<side, i>>
None == <<"none", 0>>
Other(side) == IF side = "a" THEN "b" ELSE "a"

\* the two teams as one value, so that operators can update either
Teams == [a |-> team_a, b |-> team_b]
Deref(w, ref) == w[ref[1]][ref[2]]
Store(w, ref, p) == [w EXCEPT ![ref[1]][ref[2]] = p]

\* one line of the transcript: its text, the participants it names (by pk, 0
\* when it names none) and the numbers it shows
Line(text, who, whom, x, y) == [text |-> text, who |-> who, whom |-> whom, x |-> x, y |-> y]
Pk(w, ref) == Deref(w, ref).instance.pk

\* the last MaxLog lines of a transcript
Recent(q) == IF Len(q) > MaxLog THEN SubSeq(q, Len(q) - MaxLog + 1, Len(q)) ELSE q

\* logs += lines
Emit(lines) ==
  /\ logs' = Recent(logs \o lines)
  /\ nlogs' = nlogs + Len(lines)

\* ---------------------------------------------------------- AbilityProcessor
\* logic.get(when, [])
Entries(inst, when) ==
  IF when \in DOMAIN inst.capacity_logic THEN inst.capacity_logic[when] ELSE <<>>

\* entry.get("value", default)
ValueOf(entry, default) == IF "value" \in DOMAIN entry THEN entry.value ELSE default

\* int(actor.max_hp * pct), without the max(1, ...)
HealAmountNoMin(maxhp, pct) == PyInt(RMul(FromInt(maxhp), pct))

\* max(1, int(actor.max_hp * pct))
HealAmount(maxhp, pct) == Max(1, PyInt(RMul(FromInt(maxhp), pct)))

\* actor.current_hp + heal, without the min(..., actor.max_hp)
HealedHpNoCap(hp, heal, maxhp) == hp + heal

\* a heal that takes the amount away
HealedHpDrains(hp, heal, maxhp) == Min(hp - heal, maxhp)

\* min(actor.current_hp + heal, actor.max_hp)
HealedHp(hp, heal, maxhp) == Min(hp + heal, maxhp)

\* target.shield_percent += pct
ShieldGrantSum(old, pct) == RAdd(old, pct)

\* target.shield_percent = pct
ShieldGrantLatest(old, pct) == pct

\* target.shield_percent = max(target.shield_percent, pct)
ShieldGrant(old, pct) == RMax(old, pct)

\* the grant line written whether or not there is a target
ShieldEntryAlwaysLogs(w, actor, target, pct) ==
  IF target # None
  THEN LET g == Deref(w, target)
       IN [w |-> Store(w, target, [g EXCEPT !.shield_percent = ShieldGrant(@, pct)]),
           out |-> <<Line("grants shield", Pk(w, actor), g.instance.pk,
                          PyInt(RMul(pct, FromInt(100))), 0)>>]
  ELSE [w |-> w,
        out |-> <<Line("grants shield", Pk(w, actor), 0, PyInt(RMul(pct, FromInt(100))), 0)>>]

\* "if target:" with the grant and its line; nothing without a target
ShieldEntry(w, actor, target, pct) ==
  IF target # None
  THEN LET g == Deref(w, target)
       IN [w |-> Store(w, target, [g EXCEPT !.shield_percent = ShieldGrant(@, pct)]),
           out |-> <<Line("grants shield", Pk(w, actor), g.instance.pk,
                          PyInt(RMul(pct, FromInt(100))), 0)>>]
  ELSE [w |-> w, out |-> <<>>]

\* the body of the loop of apply_abilities for one entry: the teams and the
\* log lines after it
ApplyEntry(w, actor, target, entry) ==
  LET a == Deref(w, actor)
      t == entry.type
  IN CASE t = "damage_multiplier" ->
            LET mult == ValueOf(entry, FromInt(1))
            IN [w |-> Store(w, actor, [a EXCEPT !.extra_damage_multiplier = RMul(@, mult)]),
                out |-> <<Line("uses damage x", a.instance.pk, 0, mult.n, mult.d)>>]
       [] t = "extra_damage" ->
            LET amt == PyInt(ValueOf(entry, FromInt(0)))
            IN [w |-> Store(w, actor, [a EXCEPT !.extra_flat_damage = @ + amt]),
                out |-> <<Line("gains extra damage", a.instance.pk, 0, amt, 0)>>]
       [] t = "heal" ->
            LET pct == ValueOf(entry, FromInt(0))
                heal == HealAmount(a.max_hp, pct)
            IN [w |-> Store(w, actor, [a EXCEPT !.current_hp = HealedHp(@, heal, a.max_hp)]),
                out |-> <<Line("heals", a.instance.pk, 0, heal, 0)>>]
       [] t = "shield" ->
            LET pct == ValueOf(entry, FromInt(0))
            IN ShieldEntry(w, actor, target, pct)
       [] OTHER -> [w |-> w, out |-> <<Line("Unknown ability type", 0, 0, 0, 0)>>]

\* AbilityProcessor.apply_abilities(when, actor, target) is entered: no entry
\* is applied yet
Call(when, actor, target) == [when |-> when, actor |-> actor, target |-> target, i |-> 1]
NoCall == [when |-> "none", actor |-> None, target |-> None, i |-> 1]

\* ... or skipped because the guarding "if" found None
CallIf(when, actor, target) == IF actor # None THEN Call(when, actor, target) ELSE NoCall

FrameEntries(w, f) == IF f.actor = None THEN <<>> ELSE Entries(Deref(w, f.actor).instance, f.when)

\* the call in progress has gone through all its entries
PassDone == frame.i > Len(FrameEntries(Teams, frame))

\* the types apply_abilities knows
KnownTypes == {"damage_multiplier", "extra_damage", "heal", "shield"}

\* an entry of an unknown type ends the pass
ApplyStepBreakOnUnknown ==
  /\ ~PassDone
  /\ LET entry == FrameEntries(Teams, frame)[frame.i]
         r == ApplyEntry(Teams, frame.actor, frame.target, entry)
     IN /\ team_a' = r.w.a
        /\ team_b' = r.w.b
        /\ Emit(r.out)
        /\ frame' = [frame EXCEPT !.i = IF entry.type \in KnownTypes THEN @ + 1
                                        ELSE Len(FrameEntries(Teams, frame)) + 1]
  /\ UNCHANGED <<in_a, in_b, pc, turn, a_active, b_active, dmg>>

\* the entries taken from the end of the list
ApplyStepReversed ==
  /\ ~PassDone
  /\ LET es == FrameEntries(Teams, frame)
         r == ApplyEntry(Teams, frame.actor, frame.target, es[Len(es) + 1 - frame.i])
     IN /\ team_a' = r.w.a
        /\ team_b' = r.w.b
        /\ Emit(r.out)
  /\ frame' = [frame EXCEPT !.i = @ + 1]
  /\ UNCHANGED <<in_a, in_b, pc, turn, a_active, b_active, dmg>>

\* one iteration of "for entry in logic.get(when, [])"
ApplyStep ==
  /\ ~PassDone
  /\ LET r == ApplyEntry(Teams, frame.actor, frame.target, FrameEntries(Teams, frame)[frame.i])
     IN /\ team_a' = r.w.a
        /\ team_b' = r.w.b
        /\ Emit(r.out)
  /\ frame' = [frame EXCEPT !.i = @ + 1]
  /\ UNCHANGED <<in_a, in_b, pc, turn, a_active, b_active, dmg>>

\* --------------------------------------------------------------- TeamBattle
\* make_participants(team)
RECURSIVE MakeParticipants(_)
MakeParticipants(team) ==
  IF team = <<>> THEN <<>>
  ELSE Append(MakeParticipants(SubSeq(team, 1, Len(team) - 1)),
              Participant(team[Len(team)], team[Len(team)].health, team[Len(team)].health))

\* the whole list: "for inst in team"
FirstAll(team) == team

\* team[:3]
FirstThree(team) == SubSeq(team, 1, Min(TeamCap, Len(team)))

\* only the first participant is looked at
ActiveFirstOnly(team) == IF team[1].current_hp > 0 THEN 1 ELSE 0

\* the last living participant instead of the first
ActiveLastLiving(team) ==
  IF \E i \in 1..Len(team) : team[i].current_hp > 0
  THEN CHOOSE i \in 1..Len(team) :
         /\ team[i].current_hp > 0
         /\ \A j \in (i + 1)..Len(team) : team[j].current_hp <= 0
  ELSE 0

\* TeamBattle._active(team), as an index; 0 for None
Active(team) ==
  IF \E i \in 1..Len(team) : team[i].current_hp > 0
  THEN CHOOSE i \in 1..Len(team) :
         /\ team[i].current_hp > 0
         /\ \A j \in 1..(i - 1) : team[j].current_hp <= 0
  ELSE 0

\* int((attack + flat) * multiplier): the flat bonus multiplied as well
PreDamageFlatScaled(p) ==
  PyInt(RMul(FromInt(p.instance.attack + p.extra_flat_damage), p.extra_damage_multiplier))

\* int(attacker.instance.attack * attacker.extra_damage_multiplier) + attacker.extra_flat_damage
PreDamage(p) ==
  PyInt(RMul(FromInt(p.instance.attack), p.extra_damage_multiplier)) + p.extra_flat_damage

\* "if defender.shield_percent:"
HasShield(p) == p.shield_percent.n # 0

\* int(dmg * defender.shield_percent)
Reduction(d, p) == PyInt(RMul(FromInt(d), p.shield_percent))

\* the shield branch without the max(1, dmg) after it
FinalDamageNoFloor(d, p) == IF p.shield_percent.n # 0 THEN d - PyInt(RMul(FromInt(d), p.shield_percent)) ELSE d

\* the damage taken from the defender's current_hp: the shield branch, then max(1, dmg)
FinalDamage(d, p) == Max(1, IF HasShield(p) THEN d - Reduction(d, p) ELSE d)

\* the attack costs the attacker its remaining HP
ResetAttackerSpent(p) ==
  [p EXCEPT !.extra_damage_multiplier = FromInt(1), !.extra_flat_damage = 0, !.current_hp = 0]

\* only the multiplier is reset
ResetAttackerMultOnly(p) == [p EXCEPT !.extra_damage_multiplier = FromInt(1)]

\* attacker.extra_damage_multiplier = 1.0; attacker.extra_flat_damage = 0
ResetAttacker(p) ==
  [p EXCEPT !.extra_damage_multiplier = FromInt(1), !.extra_flat_damage = 0]

\* the hit also clears the defender's multiplier and flat bonus
AfterHitClears(p, hit) ==
  [p EXCEPT !.current_hp = @ - hit, !.extra_damage_multiplier = FromInt(1), !.extra_flat_damage = 0]

\* the hit taken from max_hp as well
AfterHitLowersMax(p, hit) == [p EXCEPT !.current_hp = @ - hit, !.max_hp = @ - hit]

\* the hit uses the shield up
AfterHitConsume(p, hit) == [p EXCEPT !.current_hp = @ - hit, !.shield_percent = FromInt(0)]

\* defender.current_hp -= dmg
AfterHit(p, hit) == [p EXCEPT !.current_hp = @ - hit]

\* the limit tested one turn early: "if turn >= 1000"
OverLimitEarly(t) == t >= TurnLimit

\* the limit tested one turn late
OverLimitLate(t) == t > TurnLimit + 1

\* "if turn > 1000"
OverLimit(t) == t > TurnLimit

\* any(p.current_hp > 0 for p in team)
Alive(team) == \E i \in 1..Len(team) : team[i].current_hp > 0

\* "if a_alive: ... elif b_alive: ... else: ..."
VerdictTextNoNot(a_alive, b_alive) ==
  IF a_alive THEN "Team A wins!"
  ELSE IF b_alive THEN "Team B wins!"
  ELSE "Battle ended in a draw."

\* the verdict of run
VerdictText(a_alive, b_alive) ==
  IF a_alive /\ ~b_alive THEN "Team A wins!"
  ELSE IF b_alive /\ ~a_alive THEN "Team B wins!"
  ELSE "Battle ended in a draw."

\* three independent ifs instead of if / elif / else
VerdictLinesNoElif(a_alive, b_alive) ==
  (IF a_alive /\ ~b_alive THEN <<Line("Team A wins!", 0, 0, 0, 0)>> ELSE <<>>)
  \o (IF b_alive /\ ~a_alive THEN <<Line("Team B wins!", 0, 0, 0, 0)>>
      ELSE <<Line("Battle ended in a draw.", 0, 0, 0, 0)>>)

\* the lines the if / elif / else at the end of run appends
VerdictLines(a_alive, b_alive) == <<Line(VerdictText(a_alive, b_alive), 0, 0, 0, 0)>>

\* __init__ with "if not team_a:" only
ConstructChecksOnlyA ==
  /\ pc = "new"
  /\ IF in_a = <<>>
     THEN /\ pc' = "error"
          /\ UNCHANGED <<team_a, team_b>>
     ELSE /\ pc' = "ready"
          /\ team_a' = MakeParticipants(FirstThree(in_a))
          /\ team_b' = MakeParticipants(FirstThree(in_b))
  /\ UNCHANGED <<in_a, in_b, logs, nlogs, turn, a_active, b_active, dmg, frame>>

\* TeamBattle.__init__
Construct ==
  /\ pc = "new"
  /\ IF in_a = <<>> \/ in_b = <<>>
     THEN /\ pc' = "error"
          /\ UNCHANGED <<team_a, team_b>>
     ELSE /\ pc' = "ready"
          /\ team_a' = MakeParticipants(FirstThree(in_a))
          /\ team_b' = MakeParticipants(FirstThree(in_b))
  /\ UNCHANGED <<in_a, in_b, logs, nlogs, turn, a_active, b_active, dmg, frame>>

\* run firing team B's on_enter first
RunStartBFirst ==
  /\ pc = "ready"
  /\ logs' = <<>>
  /\ nlogs' = 0
  /\ turn' = 1
  /\ a_active' = Active(team_a)
  /\ b_active' = Active(team_b)
  /\ frame' = CallIf("on_enter", Ref("b", b_active'), Ref("a", a_active'))
  /\ pc' = "enter_a"
  /\ UNCHANGED <<in_a, in_b, team_a, team_b, dmg>>

\* run, up to the on_enter of team A's first participant
RunStart ==
  /\ pc = "ready"
  /\ logs' = <<>>
  /\ nlogs' = 0
  /\ turn' = 1
  /\ a_active' = Active(team_a)
  /\ b_active' = Active(team_b)
  /\ frame' = CallIf("on_enter", Ref("a", a_active'), Ref("b", b_active'))
  /\ pc' = "enter_a"
  /\ UNCHANGED <<in_a, in_b, team_a, team_b, dmg>>

\* the on_enter of team B's first participant
EnterB ==
  /\ pc = "enter_a"
  /\ PassDone
  /\ frame' = CallIf("on_enter", Ref("b", b_active), Ref("a", a_active))
  /\ pc' = "enter_b"
  /\ UNCHANGED <<in_a, in_b, team_a, team_b, logs, nlogs, turn, a_active, b_active, dmg>>

\* the active participants of both teams
Actives(side) == IF side = "a" THEN Ref("a", a_active) ELSE Ref("b", b_active)

\* the head of "while True": the actives, the break, the turn header and
\* team A's on_attack
LoopHead ==
  /\ pc \in {"enter_b", "loop"}
  /\ PassDone
  /\ a_active' = Active(team_a)
  /\ b_active' = Active(team_b)
  /\ IF a_active' = 0 \/ b_active' = 0
     THEN /\ pc' = "verdict"
          /\ frame' = NoCall
          /\ UNCHANGED <<logs, nlogs, nlogs>>
     ELSE /\ Emit(<<Line("-- Turn", team_a[a_active'].instance.pk,
                        team_b[b_active'].instance.pk, turn, 0)>>)
          /\ frame' = Call("on_attack", Ref("a", a_active'), Ref("b", b_active'))
          /\ pc' = "a_attack"
  /\ UNCHANGED <<in_a, in_b, team_a, team_b, turn, dmg>>

\* dmg = int(attack * multiplier) + flat of the attacking side, then the
\* defender's on_defend
PreDamageStep(side, at, next) ==
  /\ pc = at
  /\ PassDone
  /\ dmg' = PreDamage(Deref(Teams, Actives(side)))
  /\ frame' = Call("on_defend", Actives(Other(side)), Actives(side))
  /\ pc' = next
  /\ UNCHANGED <<in_a, in_b, team_a, team_b, logs, nlogs, turn, a_active, b_active>>

\* the shield, max(1, dmg), the hit, the attacker's reset, and the defeat
\* line with the defender's on_exit
DamageStep(side, at, exit, done) ==
  /\ pc = at
  /\ PassDone
  /\ LET att == Actives(side)
         def == Actives(Other(side))
         a == Deref(Teams, att)
         d == Deref(Teams, def)
         hit == FinalDamage(dmg, d)
         d2 == AfterHit(d, hit)
         w == Store(Store(Teams, def, d2), att, ResetAttacker(a))
         absorbs == IF HasShield(d)
                    THEN <<Line("absorbs", d.instance.pk, 0, Reduction(dmg, d), 0)>>
                    ELSE <<>>
         deals == <<Line("deals", a.instance.pk, d.instance.pk, hit, Max(d2.current_hp, 0))>>
     IN /\ dmg' = hit
        /\ team_a' = w.a
        /\ team_b' = w.b
        /\ IF d2.current_hp <= 0
           THEN /\ Emit(absorbs \o deals \o <<Line("has been defeated", d.instance.pk, 0, 0, 0)>>)
                /\ frame' = Call("on_exit", def, att)
                /\ pc' = exit
           ELSE /\ Emit(absorbs \o deals)
                /\ frame' = NoCall
                /\ pc' = done
  /\ UNCHANGED <<in_a, in_b, turn, a_active, b_active>>

\* the next participant enters without its on_enter
NextStepNoEnter(side, at, done) ==
  /\ pc = at
  /\ PassDone
  /\ frame' = NoCall
  /\ pc' = done
  /\ UNCHANGED <<in_a, in_b, team_a, team_b, logs, nlogs, turn, a_active, b_active, dmg>>

\* the next participant's on_enter handed the participant it replaces
NextStepTargetsDefeated(side, at, done) ==
  /\ pc = at
  /\ PassDone
  /\ LET next == Active(Teams[Other(side)])
     IN frame' = CallIf("on_enter", Ref(Other(side), next), Actives(Other(side)))
  /\ pc' = done
  /\ UNCHANGED <<in_a, in_b, team_a, team_b, logs, nlogs, turn, a_active, b_active, dmg>>

\* next = self._active(defending team), and its on_enter
NextStep(side, at, done) ==
  /\ pc = at
  /\ PassDone
  /\ LET next == Active(Teams[Other(side)])
     IN frame' = CallIf("on_enter", Ref(Other(side), next), Actives(side))
  /\ pc' = done
  /\ UNCHANGED <<in_a, in_b, team_a, team_b, logs, nlogs, turn, a_active, b_active, dmg>>

A_PreDamage == PreDamageStep("a", "a_attack", "a_defend")
A_Damage == DamageStep("a", "a_defend", "a_exit", "a_done")
A_NextDef == NextStep("a", "a_exit", "a_done")

\* the break after team A's exchange taken after "turn += 1"
B_CheckCountsTurn ==
  /\ pc = "a_done"
  /\ PassDone
  /\ a_active' = Active(team_a)
  /\ b_active' = Active(team_b)
  /\ IF a_active' = 0 \/ b_active' = 0
     THEN /\ pc' = "verdict"
          /\ frame' = NoCall
          /\ turn' = turn + 1
     ELSE /\ frame' = Call("on_attack", Ref("b", b_active'), Ref("a", a_active'))
          /\ pc' = "b_attack"
          /\ turn' = turn
  /\ UNCHANGED <<in_a, in_b, team_a, team_b, logs, nlogs, dmg>>

\* "team B attacks (if still alive)": the actives again, the break, team B's on_attack
B_Check ==
  /\ pc = "a_done"
  /\ PassDone
  /\ a_active' = Active(team_a)
  /\ b_active' = Active(team_b)
  /\ IF a_active' = 0 \/ b_active' = 0
     THEN /\ pc' = "verdict"
          /\ frame' = NoCall
     ELSE /\ frame' = Call("on_attack", Ref("b", b_active'), Ref("a", a_active'))
          /\ pc' = "b_attack"
  /\ UNCHANGED <<in_a, in_b, team_a, team_b, logs, nlogs, turn, dmg>>

B_PreDamage == PreDamageStep("b", "b_attack", "b_defend")
B_Damage == DamageStep("b", "b_defend", "b_exit", "b_done")
B_NextA == NextStep("b", "b_exit", "b_done")

\* turn += 1 and the turn limit
TurnEnd ==
  /\ pc = "b_done"
  /\ PassDone
  /\ turn' = turn + 1
  /\ IF OverLimit(turn')
     THEN /\ Emit(<<Line("Turn limit reached, ending in a draw.", 0, 0, 0, 0)>>)
          /\ pc' = "verdict"
     ELSE /\ pc' = "loop"
          /\ UNCHANGED <<logs, nlogs, nlogs>>
  /\ frame' = NoCall
  /\ UNCHANGED <<in_a, in_b, team_a, team_b, a_active, b_active, dmg>>

\* the verdict line and the return
Verdict ==
  /\ pc = "verdict"
  /\ Emit(VerdictLines(Alive(team_a), Alive(team_b)))
  /\ pc' = "done"
  /\ UNCHANGED <<in_a, in_b, team_a, team_b, turn, a_active, b_active, dmg, frame>>

\* --------------------------------------------------------- battle sessions
Range(q) == { q[k] : k \in 1..Len(q) }

VARIABLES
  battle_sessions,   \* _battle_sessions: session id -> its session dict (an index of sessions), 0 without one
  sessions,          \* the session dicts created so far, in the order of their creation
  handlers,          \* the add and confirm handlers suspended at an await, as a bag
  battle_records,    \* the BattleRecord rows created so far
  raised,            \* the exceptions that have left a handler
  commands           \* how many commands have been accepted since the start

svars == <<battle_sessions, sessions, handlers, battle_records, raised, commands>>
allvars == <<vars, svars>>

\* how many commands are accepted, and how many handlers are suspended at once
MaxCommands == 3
MaxHandlers == 2

\* the discord users; Nobody is "opponent: None"
Users == {"u1", "u2", "u3"}
Nobody == "nobody"
\* the values _new_session_id takes, in the order of their first use; it
\* reads the clock, so a value can come again
SessionIds == <<"s1", "s2">>
\* the limits a start command is given
Limits == {0, 1, 2, 4}
\* the BallInstance rows: u1 owns Plain and Reviver, u2 owns Spare
Stock == {Plain, Reviver, Spare}
InstanceIds == { inst.pk : inst \in Stock }
\* inst.player.discord_id
OwnerOf(instance_id) == IF instance_id \in {Plain.pk, Reviver.pk} THEN "u1" ELSE "u2"
\* BallInstance.objects.get(pk=i)
Get(instance_id) == CHOOSE inst \in Stock : inst.pk = instance_id
GetAll(ids) == [k \in 1..Len(ids) |-> Get(ids[k])]

\* the dict battle_start stores
Session(host, opponent, limit) ==
  [host |-> host, opponent |-> opponent, limit |-> limit,
   team_a |-> <<>>, team_b |-> <<>>,
   confirmed |-> [u \in {host, opponent} |-> FALSE]]

\* a handler: its command and arguments, the session dict it holds (sess),
\* the await it is suspended at, and the locals of battle_confirm
Handler(cmd, user, session, sess, instance_id, at) ==
  [cmd |-> cmd, user |-> user, session |-> session, sess |-> sess,
   instance_id |-> instance_id, at |-> at, k |-> 0, a_list |-> <<>>, b_list |-> <<>>,
   seen_a |-> <<>>, seen_b |-> <<>>]

Suspended == BagToSet(handlers)
Without(h) == handlers (-) SetToBag({h})
With(bag, h) == bag (+) SetToBag({h})

\* a command can be taken
Room == commands < MaxCommands /\ BagCardinality(handlers) < MaxHandlers

In(x, q) == \E k \in 1..Len(q) : q[k] = x

\* all(sess["confirmed"].values())
AllConfirmed(s) == \A u \in DOMAIN s.confirmed : s.confirmed[u]

\* the session ids that are stored or that a handler was given
Known == { SessionIds[n] : n \in { m \in 1..Len(SessionIds) :
             \/ battle_sessions[SessionIds[m]] # 0
             \/ \E h \in Suspended : h.session = SessionIds[m] } }
\* what _new_session_id can return: a known id, or the first of the others
\* (which no state tells apart)
NewSessionIds ==
  Known \cup { SessionIds[n] : n \in { m \in 1..Len(SessionIds) :
                 /\ SessionIds[m] \notin Known
                 /\ \A l \in 1..(m - 1) : SessionIds[l] \in Known } }

\* no TeamBattle exists
NoBattle ==
  /\ in_a = <<>> /\ in_b = <<>> /\ team_a = <<>> /\ team_b = <<>>
  /\ pc = "idle" /\ logs = <<>> /\ nlogs = 0 /\ turn = 0
  /\ a_active = 0 /\ b_active = 0 /\ dmg = 0 /\ frame = NoCall

\* the handler's TeamBattle is dropped
DropBattle ==
  /\ in_a' = <<>> /\ in_b' = <<>> /\ team_a' = <<>> /\ team_b' = <<>>
  /\ pc' = "idle" /\ logs' = <<>> /\ nlogs' = 0 /\ turn' = 0
  /\ a_active' = 0 /\ b_active' = 0 /\ dmg' = 0 /\ frame' = NoCall

\* no session command has been given
NoSessions ==
  /\ battle_sessions = [id \in Range(SessionIds) |-> 0]
  /\ sessions = <<>>
  /\ handlers = EmptyBag
  /\ battle_records = <<>>
  /\ raised = {}
  /\ commands = 0

\* BattleCog.battle_start: it has no await before the dict is stored
battle_start(user, limit, opponent, session_id) ==
  /\ pc = "idle"
  /\ commands < MaxCommands
  /\ IF limit < 1 \/ limit > 3 \/ opponent = Nobody
     THEN UNCHANGED <<battle_sessions, sessions, commands>>
     ELSE /\ sessions' = Append(sessions, Session(user, opponent, limit))
          /\ battle_sessions' = [battle_sessions EXCEPT ![session_id] = Len(sessions) + 1]
          /\ commands' = commands + 1
  /\ UNCHANGED <<handlers, battle_records, raised>>
  /\ UNCHANGED vars

\* BattleCog.battle_add up to its first await: the session is looked up and
\* the user checked
battle_add(user, session, instance_id) ==
  /\ pc = "idle"
  /\ Room
  /\ LET sess == battle_sessions[session]
     IN IF sess = 0 \/ user \notin {sessions[sess].host, sessions[sess].opponent}
        THEN UNCHANGED <<handlers, commands>>
        ELSE /\ handlers' = With(handlers, Handler("add", user, session, sess, instance_id, "get"))
             /\ commands' = commands + 1
  /\ UNCHANGED <<battle_sessions, sessions, battle_records, raised>>
  /\ UNCHANGED vars

\* the team battle_add appends to
TeamOf(s, user) == IF user = s.host THEN "team_a" ELSE "team_b"

\* BattleCog.battle_add from the return of its awaits (the instance and the
\* player are read, which touches no session): ownership, the limit, the
\* duplicate check, the append and the reset of the confirmations
battle_add_resume(h) ==
  /\ pc = "idle"
  /\ h.cmd = "add"
  /\ LET s == sessions[h.sess]
         team == TeamOf(s, h.user)
     IN IF \/ OwnerOf(h.instance_id) # h.user
           \/ Len(s[team]) >= s.limit
           \/ In(h.instance_id, s.team_a)
           \/ In(h.instance_id, s.team_b)
        THEN UNCHANGED sessions
        ELSE sessions' = [sessions EXCEPT ![h.sess] =
                            [s EXCEPT ![team] = Append(@, h.instance_id),
                                      !.confirmed = [u \in DOMAIN @ |-> FALSE]]]
  /\ handlers' = Without(h)
  /\ UNCHANGED <<battle_sessions, battle_records, raised, commands>>
  /\ UNCHANGED vars

\* a confirm that does not look at the caller's team
battle_confirm_any_team(user, session) ==
  /\ pc = "idle"
  /\ Room
  /\ LET sess == battle_sessions[session]
     IN IF \/ sess = 0
           \/ user \notin {sessions[sess].host, sessions[sess].opponent}
        THEN UNCHANGED <<sessions, handlers, commands>>
        ELSE /\ sessions' = [sessions EXCEPT ![sess].confirmed[user] = TRUE]
             /\ handlers' = With(handlers, Handler("confirm", user, session, sess, 0, "sent"))
             /\ commands' = commands + 1
  /\ UNCHANGED <<battle_sessions, battle_records, raised>>
  /\ UNCHANGED vars

\* BattleCog.battle_confirm up to its first await: the checks and
\* sess["confirmed"][uid] = True
battle_confirm(user, session) ==
  /\ pc = "idle"
  /\ Room
  /\ LET sess == battle_sessions[session]
     IN IF \/ sess = 0
           \/ user \notin {sessions[sess].host, sessions[sess].opponent}
           \/ (user = sessions[sess].host /\ sessions[sess].team_a = <<>>)
           \/ (user = sessions[sess].opponent /\ sessions[sess].team_b = <<>>)
        THEN UNCHANGED <<sessions, handlers, commands>>
        ELSE /\ sessions' = [sessions EXCEPT ![sess].confirmed[user] = TRUE]
             /\ handlers' = With(handlers, Handler("confirm", user, session, sess, 0, "sent"))
             /\ commands' = commands + 1
  /\ UNCHANGED <<battle_sessions, battle_records, raised>>
  /\ UNCHANGED vars

\* where the two list comprehensions stand: at the await for element k of
\* a_ids or of b_ids (the lists of the session dict themselves), or past both
Advance(s, h) ==
  IF h.at = "load_a" /\ h.k <= Len(s.team_a) THEN h
  ELSE LET b == IF h.at = "load_a" THEN [h EXCEPT !.at = "load_b", !.k = 1] ELSE h
       IN IF b.k <= Len(s.team_b) THEN b ELSE [b EXCEPT !.at = "construct"]

\* the handler h, now g, goes on to its next await, or to TeamBattle(a_list, b_list)
Proceed(h, g) ==
  LET n == Advance(sessions[g.sess], g)
  IN IF n.at = "construct"
     THEN /\ handlers' = With(Without(h), [n EXCEPT !.at = "battle"])
          /\ in_a' = GetAll(n.a_list)
          /\ in_b' = GetAll(n.b_list)
          /\ pc' = "new"
          /\ UNCHANGED <<team_a, team_b, logs, nlogs, turn, a_active, b_active, dmg, frame>>
     ELSE /\ handlers' = With(Without(h), n)
          /\ UNCHANGED vars

\* BattleCog.battle_confirm from the return of send_message: the test of
\* all the confirmations; seen_a and seen_b keep the team lists as they are
\* when the test passes, for the properties only (the code has no such copy)
battle_confirm_check(h) ==
  /\ pc = "idle"
  /\ h.cmd = "confirm"
  /\ h.at = "sent"
  /\ IF AllConfirmed(sessions[h.sess])
     THEN Proceed(h, [h EXCEPT !.at = "load_a", !.k = 1,
                               !.seen_a = sessions[h.sess].team_a,
                               !.seen_b = sessions[h.sess].team_b])
     ELSE /\ handlers' = Without(h)
          /\ UNCHANGED vars
  /\ UNCHANGED <<battle_sessions, sessions, battle_records, raised, commands>>

\* one instance has been read: the comprehension keeps it and goes on
battle_confirm_load(h) ==
  /\ pc = "idle"
  /\ h.at \in {"load_a", "load_b"}
  /\ LET s == sessions[h.sess]
     IN Proceed(h, IF h.at = "load_a"
                   THEN [h EXCEPT !.a_list = Append(@, s.team_a[h.k]), !.k = @ + 1]
                   ELSE [h EXCEPT !.b_list = Append(@, s.team_b[h.k]), !.k = @ + 1])
  /\ UNCHANGED <<battle_sessions, sessions, battle_records, raised, commands>>

\* the winner stored in the BattleRecord
Winner ==
  IF Alive(team_a) /\ ~Alive(team_b) THEN "A"
  ELSE IF Alive(team_b) /\ ~Alive(team_a) THEN "B" ELSE "draw"

\* TeamBattle(a_list, b_list) has raised ValueError, which leaves the
\* handler; or run has returned: BattleRecord.objects.create, and the
\* transcript is sent (two awaits, with nothing of the session read or
\* written between them)
battle_confirm_return(h) ==
  /\ pc \in {"error", "done"}
  /\ h.at = "battle"
  /\ IF pc = "error"
     THEN /\ raised' = raised \cup {"ValueError"}
          /\ handlers' = Without(h)
          /\ UNCHANGED battle_records
     ELSE /\ LET s == sessions[h.sess]
             IN battle_records' = Append(battle_records,
                                         [sess |-> h.sess, team_a |-> s.team_a,
                                          team_b |-> s.team_b, winner |-> Winner])
          /\ handlers' = With(Without(h), [h EXCEPT !.at = "saved"])
          /\ UNCHANGED raised
  /\ DropBattle
  /\ UNCHANGED <<battle_sessions, sessions, commands>>

\* del _battle_sessions[session]
battle_confirm_cleanup(h) ==
  /\ pc = "idle"
  /\ h.at = "saved"
  /\ IF battle_sessions[h.session] = 0
     THEN /\ raised' = raised \cup {"KeyError"}
          /\ UNCHANGED battle_sessions
     ELSE /\ battle_sessions' = [battle_sessions EXCEPT ![h.session] = 0]
          /\ UNCHANGED raised
  /\ handlers' = Without(h)
  /\ UNCHANGED <<sessions, battle_records, commands>>
  /\ UNCHANGED vars

\* ------------------------------------------------------------ specifications
InitWith(la, lb) ==
  /\ in_a = la
  /\ in_b = lb
  /\ team_a = <<>>
  /\ team_b = <<>>
  /\ pc = "new"
  /\ logs = <<>>
  /\ nlogs = 0
  /\ turn = 0
  /\ a_active = 0
  /\ b_active = 0
  /\ dmg = 0
  /\ frame = NoCall
  /\ NoSessions

Init == \E la \in TeamLists(CollectionA), lb \in TeamLists(CollectionB) : InitWith(la, lb)

Next ==
  \/ Construct /\ UNCHANGED svars
  \/ RunStart /\ UNCHANGED svars
  \/ ApplyStep /\ UNCHANGED svars
  \/ EnterB /\ UNCHANGED svars
  \/ LoopHead /\ UNCHANGED svars
  \/ A_PreDamage /\ UNCHANGED svars
  \/ A_Damage /\ UNCHANGED svars
  \/ A_NextDef /\ UNCHANGED svars
  \/ B_Check /\ UNCHANGED svars
  \/ B_PreDamage /\ UNCHANGED svars
  \/ B_Damage /\ UNCHANGED svars
  \/ B_NextA /\ UNCHANGED svars
  \/ TurnEnd /\ UNCHANGED svars
  \/ Verdict /\ UNCHANGED svars

Spec == Init /\ [][Next]_vars

\* the edge battles
InitEdge == \E b \in EdgeBattles : InitWith(b[1], b[2])

SpecEdge == InitEdge /\ [][Next]_vars

\* the battles of both
SpecAll == (Init \/ InitEdge) /\ [][Next]_vars

\* the lists of different instance ids of one user, up to a limit
Picks(user, limit) ==
  { l \in Lists(InstanceIds, limit) : Distinct(l) /\ \A k \in 1..Len(l) : OwnerOf(l[k]) = user }

\* a session as start and add commands that have all returned leave it, stored as "s1"
Prepared(s) ==
  /\ battle_sessions = [id \in Range(SessionIds) |-> IF id = SessionIds[1] THEN 1 ELSE 0]
  /\ sessions = <<s>>
  /\ handlers = EmptyBag
  /\ battle_records = <<>>
  /\ raised = {}
  /\ commands = 0

\* the session commands of two players and a bystander: from the start, or
\* from a session of u1 against u2 that has its teams
InitSession ==
  /\ NoBattle
  /\ \/ NoSessions
     \/ \E limit \in {1, 2} :
          \E a \in Picks("u1", limit), b \in Picks("u2", limit) :
            Prepared([Session("u1", "u2", limit) EXCEPT !.team_a = a, !.team_b = b])

NextSession ==
  \/ \E limit \in Limits, opponent \in {"u1", "u2", Nobody}, session_id \in NewSessionIds :
       battle_start("u1", limit, opponent, session_id)
  \/ \E user \in Users, session \in Range(SessionIds), instance_id \in InstanceIds :
       battle_add(user, session, instance_id)
  \/ \E h \in Suspended : battle_add_resume(h)
  \/ \E user \in Users, session \in Range(SessionIds) : battle_confirm(user, session)
  \/ \E h \in Suspended : battle_confirm_check(h)
  \/ \E h \in Suspended : battle_confirm_load(h)
  \/ \E h \in Suspended : battle_confirm_return(h)
  \/ \E h \in Suspended : battle_confirm_cleanup(h)
  \/ Next

SpecSession == InitSession /\ [][NextSession]_allvars

\* =================================================================== claims
Last(q) == q[Len(q)]
\* the participants, as references
Everyone == { <<"a", i>> : i \in 1..Len(team_a) } \cup { <<"b", i>> : i \in 1..Len(team_b) }
VerdictTexts == {"Team A wins!", "Team B wins!", "Battle ended in a draw."}
LimitText == "Turn limit reached, ending in a draw."
InTurn == pc \in {"a_attack", "a_defend", "a_exit", "a_done",
                  "b_attack", "b_defend", "b_exit", "b_done"}
\* how many lines of q have a text in T
RECURSIVE CountIn(_, _)
CountIn(q, T) ==
  IF q = <<>> THEN 0
  ELSE CountIn(SubSeq(q, 1, Len(q) - 1), T) + (IF Last(q).text \in T THEN 1 ELSE 0)

\* C1: for non-empty teams run() terminates, and no turn numbered above 1000
\* is ever started: while a turn is in progress the turn counter is at most 1000
PcOrder ==
  <<"new", "ready", "enter_a", "enter_b", "loop", "a_attack", "a_defend", "a_exit", "a_done",
    "b_attack", "b_defend", "b_exit", "b_done", "verdict", "done", "error">>
PcIndex == CHOOSE k \in 1..Len(PcOrder) : PcOrder[k] = pc
\* how far run has got: the turn, then the place in the turn, then the
\* entry of the hook pass in progress
Progress == <<turn, PcIndex, frame.i>>
Before(x, y) ==
  \/ x[1] < y[1]
  \/ x[1] = y[1] /\ x[2] < y[2]
  \/ x[1] = y[1] /\ x[2] = y[2] /\ x[3] < y[3]
\* the longest list of entries of a hook of a participant
LongestHook ==
  CHOOSE n \in 0..100 :
    /\ \A r \in Everyone, h \in {"on_enter", "on_attack", "on_defend", "on_exit"} :
         Len(Entries(Deref(Teams, r).instance, h)) <= n
    /\ n = 0 \/ \E r \in Everyone, h \in {"on_enter", "on_attack", "on_defend", "on_exit"} :
                  Len(Entries(Deref(Teams, r).instance, h)) = n

\* C1: for non-empty teams run() terminates, and no turn numbered above
\* 1000 is ever started: every step moves run forward in (turn, place in
\* the turn, entry of the pass), which is bounded by the turn limit; run is
\* never stuck before it returns; and while a turn is in progress the turn
\* counter is at most 1000
C1_Terminates ==
  /\ [][Before(Progress, Progress')]_vars
  /\ [](turn <= TurnLimit + 1 /\ frame.i <= LongestHook + 1)
  /\ []((pc = "done") \/ (pc = "error" /\ (in_a = <<>> \/ in_b = <<>>)) \/ ENABLED Next)
  /\ [](InTurn => turn <= TurnLimit)

\* a run that returned after 1000 completed turns
C1_Witness == pc = "done" /\ turn = TurnLimit + 1

\* C2: when run() returns, the transcript is non-empty, its last line is one
\* of the three verdict lines or the turn-limit line, and exactly one verdict
\* line was appended (none before the return)
C2_Transcript ==
  /\ pc = "done" =>
       /\ nlogs >= 1
       /\ Last(logs).text \in VerdictTexts \cup {LimitText}
       /\ CountIn(logs, VerdictTexts) = 1
  /\ pc # "done" => CountIn(logs, VerdictTexts) = 0

\* a run that returned a transcript of turns and a verdict
C2_Witness == pc = "done" /\ nlogs > 3 /\ Last(logs).text = "Team B wins!"

\* C3: when run() returns, the verdict line matches the final HP: A wins iff
\* only team A has a participant with current_hp > 0, B wins iff only team B
\* has one, a draw iff both or neither have one
C3_Verdict ==
  pc = "done" =>
    LET a == \E i \in 1..Len(team_a) : team_a[i].current_hp > 0
        b == \E i \in 1..Len(team_b) : team_b[i].current_hp > 0
        v == Last(logs).text
    IN /\ (v = "Team A wins!") <=> (a /\ ~b)
       /\ (v = "Team B wins!") <=> (b /\ ~a)
       /\ (v = "Battle ended in a draw.") <=> ((a /\ b) \/ (~a /\ ~b))

\* a run that returned a draw with both teams alive
C3_Witness ==
  /\ pc = "done"
  /\ Last(logs).text = "Battle ended in a draw."
  /\ \E i \in 1..Len(team_a) : team_a[i].current_hp > 0
  /\ \E i \in 1..Len(team_b) : team_b[i].current_hp > 0

\* the step that applies team A's hit (lines 105-119), and team B's (134-148)
HitA == pc = "a_defend" /\ pc' \in {"a_exit", "a_done"}
HitB == pc = "b_defend" /\ pc' \in {"b_exit", "b_done"}

\* C4: in every exchange the defender's current_hp goes down by at least 1
C4_MinDamage ==
  [][/\ HitA => team_b'[b_active].current_hp <= team_b[b_active].current_hp - 1
     /\ HitB => team_a'[a_active].current_hp <= team_a[a_active].current_hp - 1]_vars

\* a hit on a defender whose shield is above 1.0 has just taken exactly 1 HP
C4_Witness ==
  /\ pc \in {"b_exit", "b_done"}
  /\ frame.i = 1
  /\ RLess(FromInt(1), team_a[a_active].shield_percent)
  /\ Last(logs).text \in {"deals", "has been defeated"}
  /\ dmg = 1

\* the attacker's damage before the shield, and the shield's reduction,
\* with the rounding r (Floor or PyInt)
PreWith(r(_), a) ==
  r(RMul(FromInt(a.instance.attack), a.extra_damage_multiplier)) + a.extra_flat_damage
ReductionWith(r(_), pre, d) ==
  IF RLess(FromInt(0), d.shield_percent) THEN r(RMul(FromInt(pre), d.shield_percent)) ELSE 0
DamageWith(r(_), a, d) ==
  LET pre == PreWith(r, a) IN Max(1, pre - ReductionWith(r, pre, d))

\* C5 as claimed: the damage applied is max(1, pre - reduction) with
\* pre = floor(attack * multiplier) + flat and reduction = floor(pre * shield)
\* if shield > 0, else 0, on the attacker and defender as they are when the
\* defender's on_defend pass is over
C5_FloorDamage ==
  [][/\ HitA => team_b[b_active].current_hp - team_b'[b_active].current_hp
                  = DamageWith(Floor, team_a[a_active], team_b[b_active])
     /\ HitB => team_a[a_active].current_hp - team_a'[a_active].current_hp
                  = DamageWith(Floor, team_b[b_active], team_a[a_active])]_vars

\* C5 amended: the same with both roundings towards zero (Python's int())
C5_TruncDamage ==
  [][/\ HitA => team_b[b_active].current_hp - team_b'[b_active].current_hp
                  = DamageWith(PyInt, team_a[a_active], team_b[b_active])
     /\ HitB => team_a[a_active].current_hp - team_a'[a_active].current_hp
                  = DamageWith(PyInt, team_b[b_active], team_a[a_active])]_vars

\* a shielded defender has just taken a hit of more than 1 from an attacker
\* whose on_attack hook holds a multiplier
C5_Witness ==
  /\ pc \in {"a_exit", "a_done"}
  /\ frame.i = 1
  /\ dmg > 1
  /\ RLess(FromInt(0), team_b[b_active].shield_percent)
  /\ \E k \in 1..Len(Entries(team_a[a_active].instance, "on_attack")) :
       Entries(team_a[a_active].instance, "on_attack")[k].type = "damage_multiplier"

\* the step that applies a heal entry
HealStep ==
  /\ ~PassDone
  /\ FrameEntries(Teams, frame)[frame.i].type = "heal"
  /\ frame' # frame
ActorHp == Deref(Teams, frame.actor).current_hp
ActorMaxHp == Deref(Teams, frame.actor).max_hp

\* C6 as claimed: every heal entry leaves the actor's current_hp at least 1
\* higher than before
C6_HealRaises == [][HealStep => Deref(Teams', frame.actor).current_hp >= ActorHp + 1]_vars

\* C6 amended: the amount of every heal entry is at least 1 and current_hp
\* becomes min(current_hp + amount, max_hp): at least 1 higher below max_hp,
\* unchanged at max_hp
C6_HealCapped ==
  [][HealStep =>
       LET hp2 == Deref(Teams', frame.actor).current_hp
           amount == Last(logs').x
       IN /\ Last(logs').text = "heals"
          /\ amount >= 1
          /\ hp2 = Min(ActorHp + amount, ActorMaxHp)
          /\ ActorHp < ActorMaxHp => hp2 >= ActorHp + 1
          /\ ActorHp = ActorMaxHp => hp2 = ActorHp]_vars

\* a heal entry of value 0 has just raised its actor's current_hp by 1
C6_Witness ==
  /\ frame.actor # None
  /\ frame.i > 1
  /\ frame.i - 1 <= Len(FrameEntries(Teams, frame))
  /\ FrameEntries(Teams, frame)[frame.i - 1] = E("heal", FromInt(0))
  /\ Last(logs) = Line("heals", Pk(Teams, frame.actor), 0, 1, 0)
  /\ Deref(Teams, frame.actor).current_hp < Deref(Teams, frame.actor).max_hp

\* int(shield_percent * 100), as the grant line shows it
Percent(x) == PyInt(RMul(x, FromInt(100)))
\* this step appended a line granting a shield to the participant of this pk
GrantedTo(pk) ==
  /\ nlogs' = nlogs + 1
  /\ Last(logs').text = "grants shield"
  /\ Last(logs').whom = pk

\* C7: shield_percent starts at 0 and every step leaves it at the maximum of
\* its old value and the value granted in that step (unchanged without a
\* grant): it is the maximum of 0 and all grants, never their sum
C7_ShieldMax ==
  /\ [](pc = "ready" => \A r \in Everyone : Deref(Teams, r).shield_percent = FromInt(0))
  /\ [][pc # "new" =>
          \A r \in Everyone :
            Percent(Deref(Teams', r).shield_percent)
              = IF GrantedTo(Pk(Teams, r))
                THEN Max(Percent(Deref(Teams, r).shield_percent), Last(logs').x)
                ELSE Percent(Deref(Teams, r).shield_percent)]_vars

\* one participant was granted 25% then 50%, another 50% then 25%, and both
\* hold 50%
C7_Witness ==
  /\ nlogs = 4
  /\ logs[1].x = 25 /\ logs[2].x = 50 /\ logs[3].x = 50 /\ logs[4].x = 25
  /\ \A k \in 1..4 : logs[k].text = "grants shield"
  /\ logs[1].whom = logs[2].whom /\ logs[3].whom = logs[4].whom /\ logs[1].whom # logs[3].whom
  /\ \A r \in Everyone :
       Pk(Teams, r) \in {logs[1].whom, logs[3].whom} => Deref(Teams, r).shield_percent = R(1, 2)

\* C8: from the hit of an exchange until the next exchange begins, the
\* attacker's extra_damage_multiplier is 1.0 and its extra_flat_damage is 0
C8_AttackerReset ==
  /\ pc \in {"a_exit", "a_done"} =>
       /\ team_a[a_active].extra_damage_multiplier = FromInt(1)
       /\ team_a[a_active].extra_flat_damage = 0
  /\ pc \in {"b_exit", "b_done"} =>
       /\ team_b[b_active].extra_damage_multiplier = FromInt(1)
       /\ team_b[b_active].extra_flat_damage = 0

\* team B's attacker has just hit with a multiplier and a flat bonus
\* gathered from its hooks
C8_Witness ==
  /\ pc = "b_done"
  /\ \E k \in 1..Len(logs) : logs[k].text = "uses damage x" /\ logs[k].who = team_b[b_active].instance.pk
  /\ \E k \in 1..Len(logs) : logs[k].text = "gains extra damage" /\ logs[k].who = team_b[b_active].instance.pk
                             /\ logs[k].x # 0

\* C9: every participant's shield_percent is never negative and no step lowers it
C9_ShieldKept ==
  /\ [](\A r \in Everyone : ~RLess(Deref(Teams, r).shield_percent, FromInt(0)))
  /\ [][pc # "new" =>
          \A r \in Everyone :
            ~RLess(Deref(Teams', r).shield_percent, Deref(Teams, r).shield_percent)]_vars

\* a defender still holds the shield that has just absorbed part of a hit
C9_Witness ==
  /\ pc \in {"a_done", "b_done"}
  /\ frame.i = 1
  /\ Len(logs) >= 2
  /\ logs[Len(logs) - 1].text = "absorbs"
  /\ logs[Len(logs) - 1].x > 0
  /\ \E r \in Everyone : /\ Pk(Teams, r) = logs[Len(logs) - 1].who
                         /\ RLess(FromInt(0), Deref(Teams, r).shield_percent)

\* the shield entries of a participant's on_defend hook
DefendShields(p) ==
  { Entries(p.instance, "on_defend")[k].value :
      k \in { j \in 1..Len(Entries(p.instance, "on_defend")) :
                /\ Entries(p.instance, "on_defend")[j].type = "shield"
                /\ "value" \in DOMAIN Entries(p.instance, "on_defend")[j] } }

\* C10 as claimed: when the defender's on_defend pass is over and the damage
\* of the exchange is about to be determined, the defender holds a
\* shield_percent of at least every shield value of its own on_defend hook,
\* so that the shield reduces this same hit
C10_DefendShieldApplies ==
  /\ (pc = "a_defend" /\ PassDone) =>
       \A v \in DefendShields(team_b[b_active]) : ~RLess(team_b[b_active].shield_percent, v)
  /\ (pc = "b_defend" /\ PassDone) =>
       \A v \in DefendShields(team_a[a_active]) : ~RLess(team_a[a_active].shield_percent, v)

\* the hooks of the capacity logic
Hooks == {"on_enter", "on_attack", "on_defend", "on_exit"}
\* some hook of some participant holds a heal entry
HasHeal ==
  \E r \in Everyone, h \in Hooks :
    \E k \in 1..Len(Entries(Deref(Teams, r).instance, h)) :
      Entries(Deref(Teams, r).instance, h)[k].type = "heal"
\* the health of a team's participants, added up
RECURSIVE SumHealth(_)
SumHealth(team) ==
  IF team = <<>> THEN 0
  ELSE SumHealth(SubSeq(team, 1, Len(team) - 1)) + Max(team[Len(team)].max_hp, 0)
\* the turn-limit line is in the transcript
LimitEmitted == \E k \in 1..Len(logs) : logs[k].text = LimitText

\* C11 as claimed: the turn-limit line is never emitted
C11_CapUnreachable == ~LimitEmitted

\* C11 amended: the turn-limit line is emitted only when the 1000th turn has
\* been completed, and then run goes to its verdict; this takes a heal entry
\* in some hook or a total health of at least 1000 in both teams
C11_CapOnlyAfterLastTurn ==
  LimitEmitted =>
    /\ turn = TurnLimit + 1
    /\ pc \in {"verdict", "done"}
    /\ CountIn(logs, {LimitText}) = 1
    /\ \/ HasHeal
       \/ SumHealth(team_a) >= TurnLimit /\ SumHealth(team_b) >= TurnLimit

\* the limit line was emitted in a battle without any heal entry
C11_Witness == LimitEmitted /\ ~HasHeal /\ pc = "done"

\* C12 as claimed: whenever the turn-limit line is emitted the battle ends
\* as a draw: the only line after it is "Battle ended in a draw."
C12_LimitMeansDraw ==
  (pc = "done" /\ LimitEmitted) =>
    /\ Last(logs).text = "Battle ended in a draw."
    /\ logs[Len(logs) - 1].text = LimitText

\* C13: when run() has left its loop with a living participant in both
\* teams, the turn-limit line was emitted; without that line the loop is
\* left only when some team has no living participant
C13_BothAliveOnlyByLimit ==
  LET a == \E i \in 1..Len(team_a) : team_a[i].current_hp > 0
      b == \E i \in 1..Len(team_b) : team_b[i].current_hp > 0
  IN /\ (pc \in {"verdict", "done"} /\ a /\ b) => LimitEmitted
     /\ (pc \in {"verdict", "done"} /\ ~LimitEmitted) => (~a \/ ~b)

\* run has returned after the limit line with both teams alive
C13_Witness ==
  /\ pc = "done"
  /\ LimitEmitted
  /\ team_a[1].current_hp > 0
  /\ team_b[1].current_hp > 0
  /\ turn = TurnLimit + 1

\* C14: constructing a TeamBattle with an empty team A or an empty team B
\* raises the ValueError before any Participant is built: there are no
\* teams, and run is never entered; the error is raised for no other input
C14_EmptyTeamRejected ==
  /\ (in_a = <<>> \/ in_b = <<>>) =>
       /\ pc \in {"new", "error"}
       /\ team_a = <<>> /\ team_b = <<>>
       /\ nlogs = 0 /\ turn = 0 /\ frame = NoCall
  /\ pc = "error" => (in_a = <<>> \/ in_b = <<>>)

\* the constructor has raised for a team A with instances and an empty team B
C14_Witness == pc = "error" /\ Len(in_a) = MaxTeam /\ in_b = <<>>

\* the pks of the entities of a list after its third
Beyond(l) == { l[i].pk : i \in 4..Len(l) }

\* C15: after construction each team holds min(3, n) Participants, one per
\* entity of the first three of its list, in the list's order, with
\* max_hp = current_hp = health, shield_percent 0, extra_damage_multiplier
\* 1.0 and extra_flat_damage 0; the entities after the third are in no team
\* and in no line of the transcript
C15_Construction ==
  /\ pc \notin {"new", "error"} =>
       /\ Len(team_a) = (IF Len(in_a) < 3 THEN Len(in_a) ELSE 3)
       /\ Len(team_b) = (IF Len(in_b) < 3 THEN Len(in_b) ELSE 3)
       /\ \A i \in 1..Len(team_a) :
            team_a[i].instance = in_a[i] /\ team_a[i].max_hp = in_a[i].health
       /\ \A i \in 1..Len(team_b) :
            team_b[i].instance = in_b[i] /\ team_b[i].max_hp = in_b[i].health
       /\ \A k \in 1..Len(logs) :
            {logs[k].who, logs[k].whom} \cap (Beyond(in_a) \cup Beyond(in_b)) = {}
  /\ pc = "ready" =>
       \A r \in Everyone :
         /\ Deref(Teams, r).current_hp = Deref(Teams, r).instance.health
         /\ Deref(Teams, r).shield_percent = [n |-> 0, d |-> 1]
         /\ Deref(Teams, r).extra_damage_multiplier = [n |-> 1, d |-> 1]
         /\ Deref(Teams, r).extra_flat_damage = 0

\* a battle of two lists of four has been lost by team A's first three,
\* its fourth entity never having entered
C15_Witness ==
  /\ pc = "done"
  /\ Len(in_a) = 4 /\ Len(in_b) = 4
  /\ Len(team_a) = 3 /\ Len(team_b) = 3
  /\ in_a[4].health > 0
  /\ Last(logs).text = "Team B wins!"

\* the first participant of a team with current_hp > 0, as a reference
FirstLiving(side) ==
  LET team == Teams[side]
      living == { i \in 1..Len(team) : team[i].current_hp > 0 }
  IN IF living = {} THEN None
     ELSE <<side, CHOOSE i \in living : \A j \in living : i <= j>>
\* the pk a line written by this participant carries; 0 for None
PkOf(ref) == IF ref = None THEN 0 ELSE Pk(Teams, ref)
\* how many lines one pass over these entries appends
RECURSIVE LinesOf(_, _)
LinesOf(entries, target) ==
  IF entries = <<>> THEN 0
  ELSE LinesOf(SubSeq(entries, 1, Len(entries) - 1), target)
       + (IF Last(entries).type = "shield" /\ target = None THEN 0 ELSE 1)
EnterLines(actor, target) ==
  IF actor = None THEN 0 ELSE LinesOf(Entries(Deref(Teams, actor).instance, "on_enter"), target)

\* C16: at the start of run, before the first turn header, on_enter fires
\* for team A's first living participant with team B's first living
\* participant as target, then for team B's with team A's as target, each
\* once and in that order, and no other hook fires before turn 1
C16_EnterOrder ==
  /\ pc \in {"enter_a", "enter_b"} =>
       /\ turn = 1
       /\ \A k \in 1..Len(logs) : logs[k].text # "-- Turn"
       /\ frame.when \in {"on_enter", "none"}
       /\ nlogs <= EnterLines(FirstLiving("a"), FirstLiving("b"))
                   + EnterLines(FirstLiving("b"), FirstLiving("a"))
  /\ pc = "enter_a" =>
       /\ frame = IF FirstLiving("a") = None THEN NoCall
                  ELSE [when |-> "on_enter", actor |-> FirstLiving("a"),
                        target |-> FirstLiving("b"), i |-> frame.i]
       /\ \A k \in 1..Len(logs) : logs[k].who = PkOf(FirstLiving("a"))
  /\ pc = "enter_b" =>
       /\ frame = IF FirstLiving("b") = None THEN NoCall
                  ELSE [when |-> "on_enter", actor |-> FirstLiving("b"),
                        target |-> FirstLiving("a"), i |-> frame.i]
       /\ \A k \in 1..Len(logs) :
            logs[k].who = IF k <= EnterLines(FirstLiving("a"), FirstLiving("b"))
                          THEN PkOf(FirstLiving("a")) ELSE PkOf(FirstLiving("b"))
       /\ PassDone => nlogs = EnterLines(FirstLiving("a"), FirstLiving("b"))
                               + EnterLines(FirstLiving("b"), FirstLiving("a"))
  /\ (nlogs > 0 /\ \E k \in 1..Len(logs) : logs[k].text = "-- Turn" /\ logs[k].x = 1) =>
       pc \notin {"ready", "enter_a", "enter_b"}

\* both on_enter passes are over: team A's second participant (its first
\* has no health) has granted two shields to team B's first, which then
\* wrote its own lines
C16_Witness ==
  /\ pc = "enter_b" /\ PassDone
  /\ a_active = 2 /\ b_active = 1
  /\ nlogs = 4
  /\ logs[1].text = "grants shield" /\ logs[1].who = team_a[2].instance.pk
  /\ logs[1].whom = team_b[1].instance.pk
  /\ logs[2].who = team_a[2].instance.pk
  /\ logs[3].who = team_b[1].instance.pk /\ logs[4].who = team_b[1].instance.pk

\* the order of events around a defeat, for the exchange in which `side`
\* attacks: `hit` is the step that applies the damage, `exit` the place of
\* the defender's on_exit pass, `done` the place after it
DefeatOrder(side, hit, exit, done) ==
  LET att == Actives(side)
      def == Actives(Other(side))
  IN /\ (hit /\ Deref(Teams', def).current_hp <= 0) =>
          /\ Last(logs').text = "has been defeated"
          /\ Last(logs').who = Pk(Teams, def)
          /\ logs'[Len(logs') - 1].text = "deals"
          /\ frame' = [when |-> "on_exit", actor |-> def, target |-> att, i |-> 1]
          /\ pc' = exit
     /\ (hit /\ Deref(Teams', def).current_hp > 0) =>
          /\ Last(logs').text = "deals"
          /\ frame' = NoCall
          /\ pc' = done
     /\ (pc = exit /\ pc' # exit) =>
          /\ frame.when = "on_exit" /\ PassDone
          /\ pc' = done
          /\ logs' = logs
          /\ frame' = IF FirstLiving(Other(side)) = None THEN NoCall
                       ELSE [when |-> "on_enter", actor |-> FirstLiving(Other(side)),
                             target |-> att, i |-> 1]
     /\ (pc \in {exit, done} /\ pc' \in {exit, done}) =>
          /\ \/ logs' = logs
             \/ Last(logs').text \in {"uses damage x", "gains extra damage", "heals",
                                      "grants shield", "Unknown ability type"}
          /\ frame'.when \in {"on_exit", "on_enter", "none"}
          /\ Actives(side)' = att
     /\ (pc = done /\ pc' # done) => PassDone

\* C17: when a hit takes the defender's current_hp to 0 or below, the
\* defeat line is emitted, then the defender's on_exit fires with the
\* attacker as target, then on_enter fires for the first living participant
\* of the defender's team (if any) with the attacker as target, all before
\* any further attack; a defender left with current_hp > 0 has neither
C17_DefeatOrder ==
  [][/\ DefeatOrder("a", HitA, "a_exit", "a_done")
     /\ DefeatOrder("b", HitB, "b_exit", "b_done")]_vars

\* team B's first participant was defeated: its on_exit lines follow the
\* defeat line, and the on_enter pass of its second participant is over
C17_Witness ==
  /\ pc = "a_done" /\ PassDone
  /\ frame.when = "on_enter" /\ frame.actor = <<"b", 2>> /\ frame.target = <<"a", a_active>>
  /\ team_b[1].current_hp <= 0
  /\ Len(logs) >= 5
  /\ logs[Len(logs) - 4] = Line("has been defeated", team_b[1].instance.pk, 0, 0, 0)
  /\ logs[Len(logs) - 3].who = team_b[1].instance.pk
  /\ logs[Len(logs) - 2].text = "grants shield"
  /\ logs[Len(logs) - 2].who = team_b[1].instance.pk
  /\ logs[Len(logs) - 2].whom = team_a[a_active].instance.pk
  /\ logs[Len(logs) - 1].who = team_b[2].instance.pk
  /\ logs[Len(logs)].who = team_b[2].instance.pk

\* C18 as claimed: a participant that has been defeated (its current_hp,
\* once positive, was taken to 0 or below, which is when the defeat line is
\* emitted) keeps a current_hp <= 0, and no later selection of the active
\* participants, for an attack of either side, selects it
C18_StayDefeated ==
  [][pc # "new" =>
       \A r \in Everyone :
         (Deref(Teams, r).current_hp <= 0 /\ Deref(Teams, r).max_hp > 0) =>
           /\ Deref(Teams', r).current_hp <= 0
           /\ (pc' \in {"a_attack", "b_attack"} /\ pc' # pc) =>
                (Ref("a", a_active') # r /\ Ref("b", b_active') # r)]_vars

\* an exchange has finished resolving
Resolved == pc \in {"loop", "verdict", "done"} \/ (pc \in {"a_done", "b_done"} /\ PassDone)

\* C19 as claimed: current_hp is at most max_hp in every state, and within
\* [0, max_hp] whenever an exchange has finished resolving
C19_HpClamped ==
  pc # "new" =>
    \A r \in Everyone :
      /\ Deref(Teams, r).current_hp <= Deref(Teams, r).max_hp
      /\ Resolved => Deref(Teams, r).current_hp >= 0

\* the "deals" line this step has appended
DealsLine == IF Last(logs').text = "deals" THEN Last(logs') ELSE logs'[Len(logs') - 1]

\* C19 amended: current_hp is at most max_hp in every state (heals are
\* capped); a hit stores current_hp - dmg as it is, negative or not, and
\* only the HP shown in the "HP is now" part of its line is clamped:
\* it is max(current_hp, 0), within [0, max_hp]
C19_HpShownClamped ==
  /\ [](pc # "new" =>
         \A r \in Everyone : Deref(Teams, r).current_hp <= Deref(Teams, r).max_hp)
  /\ [][/\ HitA =>
            /\ team_b'[b_active].current_hp = team_b[b_active].current_hp - dmg'
            /\ DealsLine.text = "deals"
            /\ DealsLine.y = (IF team_b'[b_active].current_hp < 0 THEN 0
                              ELSE team_b'[b_active].current_hp)
            /\ DealsLine.y \in 0..team_b[b_active].max_hp
        /\ HitB =>
            /\ team_a'[a_active].current_hp = team_a[a_active].current_hp - dmg'
            /\ DealsLine.text = "deals"
            /\ DealsLine.y = (IF team_a'[a_active].current_hp < 0 THEN 0
                              ELSE team_a'[a_active].current_hp)
            /\ DealsLine.y \in 0..team_a[a_active].max_hp]_vars

\* run has returned with a participant whose stored current_hp is negative,
\* and the line of the hit that defeated it shows 0
C19_Witness ==
  /\ pc = "done"
  /\ \E r \in Everyone :
       /\ Deref(Teams, r).current_hp < 0
       /\ \E k \in 1..Len(logs) :
            logs[k].text = "deals" /\ logs[k].whom = Pk(Teams, r) /\ logs[k].y = 0

\* the step that applies one entry of the pass in progress, and that entry
EntryStep == ~PassDone /\ frame'.i = frame.i + 1 /\ pc' = pc
Entry == FrameEntries(Teams, frame)[frame.i]
Multiplier(w, r) == Deref(w, r).extra_damage_multiplier
Flat(w, r) == Deref(w, r).extra_flat_damage
Shield(w, r) == Deref(w, r).shield_percent

\* C20 as claimed: no entry of a pass decreases the actor's
\* extra_damage_multiplier or extra_flat_damage, or the target's
\* shield_percent, whatever its numeric value
C20_NoDecrease ==
  [][EntryStep =>
       /\ ~RLess(Multiplier(Teams', frame.actor), Multiplier(Teams, frame.actor))
       /\ Flat(Teams', frame.actor) >= Flat(Teams, frame.actor)
       /\ frame.target # None =>
            ~RLess(Shield(Teams', frame.target), Shield(Teams, frame.target))]_vars

\* C20 amended: no entry decreases anyone's shield_percent; a
\* damage_multiplier entry multiplies the actor's extra_damage_multiplier by
\* its value, so does not decrease it when the value is at least 1 and the
\* multiplier is not negative; an extra_damage entry adds int(value) to the
\* actor's extra_flat_damage, so decreases it exactly when int(value) < 0;
\* no other entry, and no entry of another participant, changes the two
C20_DecreaseByValue ==
  [][EntryStep =>
       LET v == Entry.value
           m == Multiplier(Teams, frame.actor)
           m2 == Multiplier(Teams', frame.actor)
           f == Flat(Teams, frame.actor)
           f2 == Flat(Teams', frame.actor)
       IN /\ \A r \in Everyone : ~RLess(Shield(Teams', r), Shield(Teams, r))
          /\ \A r \in Everyone \ {frame.actor} :
               /\ Multiplier(Teams', r) = Multiplier(Teams, r)
               /\ Flat(Teams', r) = Flat(Teams, r)
          /\ (Entry.type # "damage_multiplier" \/ "value" \notin DOMAIN Entry) => m2 = m
          /\ (Entry.type # "extra_damage" \/ "value" \notin DOMAIN Entry) => f2 = f
          /\ (Entry.type = "damage_multiplier" /\ "value" \in DOMAIN Entry) =>
               /\ m2.n * m.d * v.d = m.n * v.n * m2.d
               /\ (~RLess(v, [n |-> 1, d |-> 1]) /\ m.n >= 0) => ~RLess(m2, m)
          /\ (Entry.type = "extra_damage" /\ "value" \in DOMAIN Entry) =>
               /\ f2 - f = (IF v.n >= 0 THEN v.n \div v.d ELSE -((-v.n) \div v.d))
               /\ (f2 < f) <=> RLess(v, [n |-> -1, d |-> 1]) \/ v = [n |-> -1, d |-> 1]]_vars

\* an on_attack pass is over that has halved its actor's multiplier
\* (damage_multiplier 0.5) and raised its flat bonus (extra_damage 3)
C20_Witness ==
  /\ frame.when = "on_attack" /\ PassDone
  /\ pc \in {"a_attack", "b_attack"}
  /\ Multiplier(Teams, frame.actor) = [n |-> 1, d |-> 2]
  /\ Flat(Teams, frame.actor) = 3

\* C21: an entry of a type other than damage_multiplier, extra_damage, heal
\* and shield appends exactly one "Unknown ability type" line and changes no
\* field of any participant; the pass goes on with the entry after it, and
\* the battle with what follows the pass
C21_UnknownType ==
  [][(~PassDone /\ Entry.type \notin {"damage_multiplier", "extra_damage", "heal", "shield"}) =>
       /\ team_a' = team_a /\ team_b' = team_b
       /\ nlogs' = nlogs + 1
       /\ Last(logs').text = "Unknown ability type"
       /\ SubSeq(logs', 1, Len(logs') - 1)
            = (IF Len(logs) < MaxLog THEN logs ELSE SubSeq(logs, 2, Len(logs)))
       /\ frame' = [frame EXCEPT !.i = frame.i + 1]
       /\ UNCHANGED <<pc, turn, dmg, a_active, b_active>>
       /\ (PassDone' \/ Entry' = FrameEntries(Teams, frame)[frame.i + 1])]_vars

\* an on_defend pass is over in which an entry of type "poison" wrote its
\* line and the entries after it were applied
C21_Witness ==
  /\ frame.when = "on_defend" /\ PassDone
  /\ Len(FrameEntries(Teams, frame)) = 3
  /\ FrameEntries(Teams, frame)[1].type = "poison"
  /\ Len(logs) >= 3
  /\ logs[Len(logs) - 2].text = "Unknown ability type"
  /\ Last(logs).text = "gains extra damage"
  /\ Flat(Teams, frame.actor) # 0

\* C22: a shield entry fired without a target changes no participant and
\* appends no line, and the pass goes on with the next entry; in run a pass
\* has no target only when it is the initial on_enter of a team whose
\* opponent has no participant with positive health
C22_MissingTarget ==
  /\ [][(~PassDone /\ Entry.type = "shield" /\ frame.target = None) =>
          /\ team_a' = team_a /\ team_b' = team_b
          /\ logs' = logs /\ nlogs' = nlogs
          /\ frame' = [frame EXCEPT !.i = frame.i + 1]
          /\ UNCHANGED <<pc, turn, dmg, a_active, b_active>>]_vars
  /\ []((frame.actor # None /\ frame.target = None) =>
          /\ frame.when = "on_enter"
          /\ pc = (IF frame.actor[1] = "a" THEN "enter_a" ELSE "enter_b")
          /\ \A i \in 1..Len(Teams[Other(frame.actor[1])]) :
               Teams[Other(frame.actor[1])][i].current_hp <= 0)

\* an initial on_enter pass of two shield entries is over that had no
\* target: it wrote nothing and nobody holds a shield
C22_Witness ==
  /\ frame.when = "on_enter" /\ frame.target = None /\ PassDone
  /\ frame.actor # None
  /\ Len(FrameEntries(Teams, frame)) = 2
  /\ \A k \in 1..2 : FrameEntries(Teams, frame)[k].type = "shield"
  /\ nlogs = 0
  /\ \A r \in Everyone : Deref(Teams, r).shield_percent.n = 0

\* the teams are of entities without abilities and with positive health,
\* of a total of at most 1000 per team
PlainBattle ==
  /\ pc \notin {"new", "error"}
  /\ \A r \in Everyone : /\ DOMAIN Deref(Teams, r).instance.capacity_logic = {}
                          /\ Deref(Teams, r).instance.health > 0
  /\ SumHealth(team_a) <= 1000 /\ SumHealth(team_b) <= 1000

\* the strikes it takes to exhaust h at d per strike
Strikes(h, d) == (h + d - 1) \div d
\* the damage of a strike without abilities
Strike(inst) == IF inst.attack < 1 THEN 1 ELSE inst.attack

\* who runs out of HP first, team A striking first in each turn: at the
\* start of a turn ta[i] with hi HP faces tb[j] with hj HP; when tb[j]
\* falls first its successor strikes back in the same turn
RECURSIVE Outcome(_, _, _, _, _, _)
Outcome(ta, tb, i, hi, j, hj) ==
  LET da == Strike(ta[i])
      db == Strike(tb[j])
      na == Strikes(hj, da)
      nb == Strikes(hi, db)
  IN IF na <= nb
     THEN IF j = Len(tb)
          THEN [winner |-> "Team A wins!", survivor |-> <<"a", i>>, hp |-> hi - (na - 1) * db]
          ELSE LET left == hi - (na - 1) * db - Strike(tb[j + 1])
               IN IF left > 0 THEN Outcome(ta, tb, i, left, j + 1, tb[j + 1].health)
                  ELSE IF i = Len(ta)
                  THEN [winner |-> "Team B wins!", survivor |-> <<"b", j + 1>>,
                        hp |-> tb[j + 1].health]
                  ELSE Outcome(ta, tb, i + 1, ta[i + 1].health, j + 1, tb[j + 1].health)
     ELSE IF i = Len(ta)
          THEN [winner |-> "Team B wins!", survivor |-> <<"b", j>>, hp |-> hj - nb * da]
          ELSE Outcome(ta, tb, i + 1, ta[i + 1].health, j, hj - nb * da)

\* C23: for teams of entities without abilities and with positive health
\* (at most 1000 in total per team) run ends with a "wins" verdict, never a
\* draw and never the limit line; the winner is the team whose opponents
\* run out of HP first, team A striking first in each turn; A = (HP 20,
\* ATK 5) against B = (HP 10, ATK 1) ends in turn 2, on A's second attack,
\* with "Team A wins!"
C23_PlainBattleWinner ==
  (PlainBattle /\ pc = "done") =>
    LET ta == SubSeq(in_a, 1, IF Len(in_a) < 3 THEN Len(in_a) ELSE 3)
        tb == SubSeq(in_b, 1, IF Len(in_b) < 3 THEN Len(in_b) ELSE 3)
        o == Outcome(ta, tb, 1, ta[1].health, 1, tb[1].health)
    IN /\ Last(logs).text \in {"Team A wins!", "Team B wins!"}
       /\ ~LimitEmitted
       /\ Last(logs).text = o.winner
       /\ Deref(Teams, o.survivor).current_hp = o.hp
       /\ FirstLiving(o.survivor[1]) = o.survivor
       /\ (in_a = <<[pk |-> 41, health |-> 20, attack |-> 5, capacity_logic |-> NoLogic]>>
            /\ in_b = <<[pk |-> 51, health |-> 10, attack |-> 1, capacity_logic |-> NoLogic]>>)
           => /\ Last(logs).text = "Team A wins!"
              /\ turn = 2
              /\ team_a[1].current_hp = 19
              /\ logs[Len(logs) - 1].text = "has been defeated"
              /\ logs[Len(logs) - 2] = Line("deals", 41, 51, 5, 0)

\* a battle of two teams of three entities without abilities has been won
\* by team B's third
C23_Witness ==
  /\ PlainBattle /\ pc = "done"
  /\ Len(team_a) = 3 /\ Len(team_b) = 3
  /\ Last(logs).text = "Team B wins!"
  /\ team_b[2].current_hp <= 0 /\ team_b[3].current_hp > 0

\* the extra_damage values of a list of entries, as the code reads them, added up
RECURSIVE SumExtra(_)
SumExtra(entries) ==
  IF entries = <<>> THEN 0
  ELSE SumExtra(SubSeq(entries, 1, Len(entries) - 1))
       + (IF Last(entries).type = "extra_damage" /\ "value" \in DOMAIN Last(entries)
          THEN PyInt(Last(entries).value) ELSE 0)
\* the participant has extra_damage entries in no hook but on_attack
OnlyAttackExtras(p) ==
  \A h \in {"on_enter", "on_defend", "on_exit"} :
    \A k \in 1..Len(Entries(p.instance, h)) : Entries(p.instance, h)[k].type # "extra_damage"
\* the damage before the shield has just been computed
PreShield == pc \in {"a_defend", "b_defend"} /\ frame.i = 1
Attacker == IF pc = "a_defend" THEN team_a[a_active] ELSE team_b[b_active]

\* C24: an extra_damage entry of value v in the attacker's on_attack hook
\* writes a "gains +v extra damage" line and raises the damage before the
\* shield of that same attack by exactly v: the damage is the attack value
\* times the multiplier, rounded, plus the bonus, which is not multiplied;
\* ATK 5 with v = 3 deals 8 to a target without a shield
C24_ExtraDamage ==
  /\ PreShield =>
       LET es == Entries(Attacker.instance, "on_attack")
       IN /\ \A k \in 1..Len(es) :
               (es[k].type = "extra_damage" /\ "value" \in DOMAIN es[k]) =>
                 logs[Len(logs) - (Len(es) - k)]
                   = Line("gains extra damage", Attacker.instance.pk, 0, PyInt(es[k].value), 0)
          /\ OnlyAttackExtras(Attacker) =>
               /\ Attacker.extra_flat_damage = SumExtra(es)
               /\ dmg = PyInt(RMul(FromInt(Attacker.instance.attack),
                                   Attacker.extra_damage_multiplier)) + SumExtra(es)
  /\ \A k \in 1..Len(logs) :
       (logs[k].text = "deals" /\ logs[k].who = 10 /\ logs[k].whom = 20) => logs[k].x = 8

\* the damage of an attack with multipliers and flat bonuses has just been
\* computed: 4 * 6 + 3
C24_Witness ==
  /\ PreShield /\ pc = "a_defend"
  /\ Attacker.instance.attack = 4
  /\ Attacker.extra_damage_multiplier = [n |-> 6, d |-> 1]
  /\ Attacker.extra_flat_damage = 3
  /\ dmg = 27

\* the damage_multiplier values of a list of entries, multiplied
RECURSIVE Product(_)
Product(entries) ==
  IF entries = <<>> THEN [n |-> 1, d |-> 1]
  ELSE LET rest == Product(SubSeq(entries, 1, Len(entries) - 1))
           e == Last(entries)
       IN IF e.type = "damage_multiplier" /\ "value" \in DOMAIN e
          THEN R(rest.n * e.value.n, rest.d * e.value.d) ELSE rest
\* the participant has damage_multiplier entries in no hook but on_attack
OnlyAttackMultipliers(p) ==
  \A h \in {"on_enter", "on_defend", "on_exit"} :
    \A k \in 1..Len(Entries(p.instance, h)) : Entries(p.instance, h)[k].type # "damage_multiplier"
\* the text of the line an entry writes
TextOf(e) ==
  CASE e.type = "damage_multiplier" -> "uses damage x"
    [] e.type = "extra_damage" -> "gains extra damage"
    [] e.type = "heal" -> "heals"
    [] e.type = "shield" -> "grants shield"
    [] OTHER -> "Unknown ability type"

\* C25: the entries of a hook are applied in document order, each writing
\* its own line, in the same order; the damage_multiplier entries of the
\* attacker's on_attack hook multiply together (2.0 and 3.0 give x6 for
\* that attack) and its extra_damage entries add up
C25_OrderAndCompound ==
  (PassDone /\ frame.actor # None /\ frame.target # None) =>
    LET es == FrameEntries(Teams, frame)
        p == Deref(Teams, frame.actor)
    IN /\ Len(logs) >= Len(es)
       /\ \A k \in 1..Len(es) :
            LET l == logs[Len(logs) - (Len(es) - k)]
            IN /\ l.text = TextOf(es[k])
               /\ l.text # "Unknown ability type" => l.who = p.instance.pk
               /\ (es[k].type = "damage_multiplier" /\ "value" \in DOMAIN es[k]) =>
                    (l.x = es[k].value.n /\ l.y = es[k].value.d)
               /\ (es[k].type = "extra_damage" /\ "value" \in DOMAIN es[k]) =>
                    l.x = PyInt(es[k].value)
       /\ (frame.when = "on_attack" /\ OnlyAttackMultipliers(p)) =>
            p.extra_damage_multiplier = Product(es)
       /\ (frame.when = "on_attack" /\ OnlyAttackExtras(p)) =>
            p.extra_flat_damage = SumExtra(es)

\* an on_attack pass of x2.0, +1, x3.0, +2 is over: its four lines are in
\* this order and the attacker holds x6 and +3
C25_Witness ==
  /\ pc = "a_attack" /\ PassDone
  /\ Len(logs) >= 4
  /\ logs[Len(logs) - 3] = Line("uses damage x", 43, 0, 2, 1)
  /\ logs[Len(logs) - 2] = Line("gains extra damage", 43, 0, 1, 0)
  /\ logs[Len(logs) - 1] = Line("uses damage x", 43, 0, 3, 1)
  /\ logs[Len(logs)] = Line("gains extra damage", 43, 0, 2, 0)
  /\ team_a[a_active].extra_damage_multiplier = [n |-> 6, d |-> 1]
  /\ team_a[a_active].extra_flat_damage = 3

\* C27: run never changes a participant's max_hp or instance, nor the length
\* or the order of a team: no step after the construction adds, removes or
\* moves a participant, a defeated one included
C27_TeamsFixed ==
  [][pc # "new" =>
       /\ Len(team_a') = Len(team_a)
       /\ Len(team_b') = Len(team_b)
       /\ \A r \in Everyone :
            /\ Deref(Teams', r).instance = Deref(Teams, r).instance
            /\ Deref(Teams', r).max_hp = Deref(Teams, r).max_hp]_vars

\* run has returned: the first of team A's three participants, defeated,
\* is still the first of its team as built
C27_Witness ==
  /\ pc = "done"
  /\ Len(team_a) = 3
  /\ team_a[1].current_hp <= 0
  /\ team_a[1].instance = in_a[1]
  /\ team_a[1].max_hp = in_a[1].health
  /\ team_a[1].max_hp > 0

\* C28: in every turn team A's exchange (on_attack, on_defend, damage,
\* reset, knockout handling) is complete before team B's begins; when a team
\* has no living participant after team A's exchange, team B's exchange is
\* skipped and the battle ends without the turn counter being incremented
C28_ExchangeOrder ==
  [][/\ pc \in {"a_attack", "a_defend", "a_exit"} =>
          pc' \in {"a_attack", "a_defend", "a_exit", "a_done"}
     /\ (pc' = "b_attack" /\ pc # "b_attack") => pc = "a_done"
     /\ (pc = "a_done" /\ pc' # "a_done") =>
          /\ PassDone
          /\ team_a' = team_a /\ team_b' = team_b /\ logs' = logs /\ turn' = turn
          /\ IF FirstLiving("a") = None \/ FirstLiving("b") = None
             THEN pc' = "verdict"
             ELSE /\ pc' = "b_attack"
                  /\ frame' = [when |-> "on_attack", actor |-> FirstLiving("b"),
                                target |-> FirstLiving("a"), i |-> 1]
     /\ pc = "verdict" => (pc' = "done" /\ turn' = turn)]_vars

\* run has returned after team A's exchange of a turn after the first
\* defeated team B's last participant: the turn counter is still the
\* number of the last turn header
C28_Witness ==
  /\ pc = "done"
  /\ turn >= 2
  /\ Last(logs).text = "Team A wins!"
  /\ logs[Len(logs) - 1].text = "has been defeated"
  /\ \E k \in 1..Len(logs) :
       /\ logs[k].text = "-- Turn" /\ logs[k].x = turn
       /\ \A m \in (k + 1)..Len(logs) : logs[m].text # "-- Turn"

\* C29 as claimed: when team A's attack has defeated team B's active
\* participant and team B has another participant with current_hp > 0,
\* that other participant, its on_enter over, makes team B's attack of the
\* same turn, against team A's active participant
C29_ReplacementAttacks ==
  [][(/\ pc = "a_done" /\ pc' = "b_attack"
      /\ frame.when = "on_enter"
      /\ \E i \in 1..Len(team_b) : i # b_active /\ team_b[i].current_hp > 0) =>
       /\ PassDone
       /\ b_active' # b_active
       /\ frame.actor = <<"b", b_active'>>
       /\ turn' = turn
       /\ frame' = [when |-> "on_attack", actor |-> <<"b", b_active'>>,
                     target |-> FirstLiving("a"), i |-> 1]]_vars

\* C30 as claimed: each participant's on_enter fires at most once and its
\* on_exit at most once. A participant whose on_exit has just run has been
\* active, so its on_enter has fired before (at the start of run or as a
\* replacement): the on_enter that follows the on_exit must be another
\* participant's, and no on_exit can then fire for it again
C30_HooksOnce ==
  [][(pc \in {"a_exit", "b_exit"} /\ pc' \in {"a_done", "b_done"}) =>
       /\ frame.when = "on_exit"
       /\ frame'.when = "on_enter" => frame'.actor # frame.actor]_vars

\* ---------------------------------------------------------------------- C31
\* run's a_active or b_active, as an index; 0 for None
Held(side) == IF side = "a" THEN a_active ELSE b_active

PositiveHealth ==
  /\ \A i \in 1..Len(in_a) : in_a[i].health > 0
  /\ \A i \in 1..Len(in_b) : in_b[i].health > 0

Untouched(p) ==
  /\ p.current_hp = p.max_hp
  /\ p.shield_percent = FromInt(0)
  /\ p.extra_damage_multiplier = FromInt(1)
  /\ p.extra_flat_damage = 0

Sides == {"a", "b"}

\* next_def or next_a has just been selected
Replaced == pc \in {"a_exit", "b_exit"} /\ pc' \in {"a_done", "b_done"} /\ frame'.actor # None

\* C31: with entities of positive health, the index of a team's active
\* participant never decreases (neither a_active / b_active from one selection
\* to the next, nor the replacement selected after a knockout), and every
\* participant after the first living one still has current_hp = max_hp, no
\* shield, multiplier 1 and flat bonus 0
C31_ActiveAdvances ==
  /\ [][PositiveHealth =>
          /\ \A side \in Sides :
               (Held(side) # 0 /\ Held(side)' # 0) => Held(side)' >= Held(side)
          /\ Replaced => frame'.actor[2] >= Held(frame'.actor[1])]_vars
  /\ [](PositiveHealth =>
          \A side \in Sides :
            FirstLiving(side) # None =>
              /\ FirstLiving(side)[2] >= Held(side)
              /\ \A i \in 1..Len(Teams[side]) :
                   i > FirstLiving(side)[2] => Untouched(Teams[side][i]))

\* team A is at its second participant while team B's first one, already hit,
\* still stands before an untouched second one
C31_Witness ==
  /\ PositiveHealth
  /\ Len(team_b) = 2
  /\ a_active = 2
  /\ b_active = 1
  /\ team_b[1].current_hp < team_b[1].max_hp
  /\ team_b[1].current_hp > 0
  /\ Untouched(team_b[2])

\* ---------------------------------------------------------------------- C32
\* an apply_abilities call made by run is in progress or has just returned
InCall == frame.when # "none"

\* C32: with entities of positive health, every hook pass of run has a target:
\* the first living participant of the team opposing the actor, with
\* current_hp > 0; and the actor has current_hp > 0 unless the pass is on_exit
C32_HookTargets ==
  (PositiveHealth /\ InCall) =>
    /\ frame.actor # None
    /\ frame.target # None
    /\ frame.target[1] = Other(frame.actor[1])
    /\ frame.target = FirstLiving(frame.target[1])
    /\ Deref(Teams, frame.target).current_hp > 0
    /\ frame.when # "on_exit" => Deref(Teams, frame.actor).current_hp > 0

\* the on_enter pass of team B's second participant starts, against team A's
\* first one
C32_Witness ==
  /\ PositiveHealth
  /\ pc = "a_done"
  /\ frame = Call("on_enter", <<"b", 2>>, <<"a", 1>>)
  /\ team_b[1].current_hp <= 0

\* ---------------------------------------------------------------------- C33
\* the participants whose current_hp this step lowers, and those it changes
Lowered == { r \in Everyone : Deref(Teams', r).current_hp < Deref(Teams, r).current_hp }
HpChanged == { r \in Everyone : Deref(Teams', r).current_hp # Deref(Teams, r).current_hp }

\* C33: current_hp is lowered only by the hit of an exchange, which lowers
\* exactly one participant, the defending team's active one (its first living
\* participant), and changes nobody else's; no other step (hook entries, the
\* attacker's reset, the knockout steps) lowers anyone's current_hp
C33_OnlyHitsLower ==
  [][/\ HitA => /\ Lowered = {<<"b", b_active>>}
                /\ HpChanged = Lowered
                /\ FirstLiving("b") = <<"b", b_active>>
     /\ HitB => /\ Lowered = {<<"a", a_active>>}
                /\ HpChanged = Lowered
                /\ FirstLiving("a") = <<"a", a_active>>
     /\ ~(HitA \/ HitB) => Lowered = {}]_vars

\* team A's second participant, active after the first one's defeat, has
\* taken a hit
C33_Witness ==
  /\ pc = "b_done"
  /\ a_active = 2
  /\ team_a[1].current_hp <= 0
  /\ team_a[2].current_hp < team_a[2].max_hp

\* ---------------------------------------------------------------------- C34
\* the participants whose multiplier or flat bonus this step changes
BonusChanged ==
  { r \in Everyone : \/ Multiplier(Teams', r) # Multiplier(Teams, r)
                     \/ Flat(Teams', r) # Flat(Teams, r) }

\* the hooks whose entries the first participant of a side has gone through
\* since its last reset when it attacks in this turn: on_enter in turn 1,
\* on_defend once the other side has attacked it, and on_attack
HooksSinceReset(side) ==
  (IF turn = 1 THEN <<"on_enter">> ELSE <<>>)
  \o (IF side = "b" \/ turn > 1 THEN <<"on_defend">> ELSE <<>>)
  \o <<"on_attack">>

RECURSIVE EntriesOf(_, _)
EntriesOf(inst, hooks) ==
  IF hooks = <<>> THEN <<>>
  ELSE Entries(inst, hooks[1]) \o EntriesOf(inst, SubSeq(hooks, 2, Len(hooks)))

\* no heal in on_exit: once defeated, the participant is not selected again
NoExitHeal(inst) ==
  \A k \in 1..Len(Entries(inst, "on_exit")) : Entries(inst, "on_exit")[k].type # "heal"

AttackingSide == IF pc = "a_defend" THEN "a" ELSE "b"

\* C34: the reset at the end of an attack touches the attacker only: a
\* participant's multiplier and flat bonus change only through the entries of
\* its own hooks and through the reset after its own attack, so what it
\* gathered in on_enter and on_defend is still there, multiplied and added up
\* with its on_attack entries, when the damage of its next attack is computed
C34_BonusCarriesOver ==
  /\ [][\A r \in BonusChanged :
          \/ ~PassDone /\ frame.actor = r /\ pc' = pc
          \/ HitA /\ r = <<"a", a_active>>
          \/ HitB /\ r = <<"b", b_active>>]_vars
  /\ []((PreShield /\ PositiveHealth /\ Held(AttackingSide) = 1 /\ NoExitHeal(Attacker.instance)) =>
          LET es == EntriesOf(Attacker.instance, HooksSinceReset(AttackingSide))
          IN /\ Attacker.extra_damage_multiplier = Product(es)
             /\ Attacker.extra_flat_damage = SumExtra(es)
             /\ dmg = PyInt(RMul(FromInt(Attacker.instance.attack), Product(es))) + SumExtra(es))

\* in turn 2 team A's first participant attacks with the -2 of the on_defend
\* pass of turn 1 added to the +3 of its on_attack: int(3 * 0.5) + 1
C34_Witness ==
  /\ pc = "a_defend" /\ frame.i = 1
  /\ turn = 2
  /\ a_active = 1
  /\ team_a[1].instance.pk = 4
  /\ team_a[1].extra_flat_damage = 1
  /\ dmg = 2

\* ---------------------------------------------------------------------- C35
DrawText == "Battle ended in a draw."

\* C35: with entities of positive health, from construction on at least one
\* team has a participant with current_hp > 0, also when run returns; and the
\* verdict "Battle ended in a draw." is written only straight after the
\* turn-limit line, once turn has passed the limit
C35_NeverBothDown ==
  (PositiveHealth /\ pc \notin {"new", "error"}) =>
    /\ Alive(team_a) \/ Alive(team_b)
    /\ (pc = "done" /\ Last(logs).text = DrawText) =>
         /\ Len(logs) >= 2
         /\ logs[Len(logs) - 1].text = LimitText
         /\ OverLimit(turn)
         /\ Alive(team_a) /\ Alive(team_b)

\* run has returned a draw between entities of positive health
C35_Witness ==
  /\ PositiveHealth
  /\ pc = "done"
  /\ Last(logs).text = DrawText

\* ---------------------------------------------------------------------- C36
\* C36: in every session dict, whatever the interleaving of the start, add
\* and confirm commands: 1 <= limit <= 3, each team holds at most limit
\* instance ids, the host's instances are in team_a only and the opponent's
\* in team_b only, and no instance id is held twice
C36_TeamsWithinLimit ==
  \A n \in 1..Len(sessions) :
    LET s == sessions[n]
    IN /\ s.limit >= 1 /\ s.limit <= 3
       /\ Len(s.team_a) <= s.limit
       /\ Len(s.team_b) <= s.limit
       /\ \A k \in 1..Len(s.team_a) :
            OwnerOf(s.team_a[k]) = s.host /\ OwnerOf(s.team_a[k]) # s.opponent
       /\ \A k \in 1..Len(s.team_b) :
            OwnerOf(s.team_b[k]) = s.opponent /\ OwnerOf(s.team_b[k]) # s.host
       /\ Distinct(s.team_a \o s.team_b)

\* ---------------------------------------------------------------------- C37
\* the handler that has constructed the TeamBattle
Battling == { h \in Suspended : h.at = "battle" }

\* a step that changes a team list of a session leaves every confirmation
\* of that session unset
AddResets ==
  \A n \in 1..Len(sessions) :
    (n <= Len(sessions') /\ ( \/ sessions'[n].team_a # sessions[n].team_a
                              \/ sessions'[n].team_b # sessions[n].team_b ))
      => \A u \in DOMAIN sessions'[n].confirmed : ~sessions'[n].confirmed[u]

\* the lists handed to TeamBattle are the session's lists as they stood when
\* the handler found both confirmations set
HandedAsConfirmed ==
  pc = "new" => \A h \in Battling : h.a_list = h.seen_a /\ h.b_list = h.seen_b

\* C37: a battle is simulated only over teams both players confirmed: every
\* successful add resets both confirmations, and the lists handed to
\* TeamBattle are the session's team lists as they stood when the second
\* confirmation was recorded, also when an add runs between the awaits of a
\* confirm in flight
C37_BattleOverConfirmedTeams ==
  /\ [][AddResets]_allvars
  /\ [](HandedAsConfirmed)

\* ---------------------------------------------------------------------- C38
\* the BattleRecords created for the session dict n
RecordsOf(n) == { k \in 1..Len(battle_records) : battle_records[k].sess = n }

\* the confirm handlers of the session dict n that have constructed a
\* TeamBattle and not yet deleted the session entry
Simulating(n) == { h \in Suspended : h.sess = n /\ h.at \in {"battle", "saved"} }

\* C38: for each session the battle is simulated, recorded and the session
\* entry deleted at most once, also when the two confirm commands interleave
\* at their awaits; no confirm handler fails on deleting a removed session
C38_BattleOnce ==
  /\ \A n \in 1..Len(sessions) :
       /\ Cardinality(RecordsOf(n)) <= 1
       /\ \A h \in Simulating(n) :
            /\ CopiesIn(h, handlers) = 1
            /\ Simulating(n) = {h}
            /\ h.at = "battle" => RecordsOf(n) = {}
  /\ "KeyError" \notin raised

\* ---------------------------------------------------------------------- C39
\* a session of a host who named themself as opponent
SelfSessions == { n \in 1..Len(sessions) : sessions[n].host = sessions[n].opponent }

\* C39: whenever the confirm flow constructs a TeamBattle both team lists
\* are non-empty, for every session battle_start accepts (a host naming
\* themself as opponent included, whose session is never confirmed): the
\* empty-team error of TeamBattle is never raised from the session commands
C39_TeamsNeverEmpty ==
  /\ pc = "new" => in_a # <<>> /\ in_b # <<>>
  /\ \A h \in Suspended :
       h.at \in {"load_a", "load_b", "battle", "saved"}
         => /\ h.sess \notin SelfSessions
            /\ sessions[h.sess].team_a # <<>>
            /\ sessions[h.sess].team_b # <<>>
  /\ pc # "error"
  /\ "ValueError" \notin raised

\* a TeamBattle has been constructed by a confirm, while a session of a host
\* against themself is stored
C39_Witness ==
  /\ pc = "new"
  /\ in_a # <<>> /\ in_b # <<>>
  /\ Battling # {}
  /\ \E n \in SelfSessions : \E id \in Range(SessionIds) : battle_sessions[id] = n

====
